---- MODULE Spec2Model ----
(***************************************************************************)
(* A model of the jsparagus grammar front-end (js_parser/parse_esgrammar)  *)
(* and of the identifier derivation of the Rust emitter                    *)
(* (jsparagus/emit/rust).                                                  *)
(*                                                                         *)
(* Python strings are modelled as sequences of characters (each character  *)
(* a one-symbol TLA+ string), so that slicing, formatting and              *)
(* concatenation are computed, not assumed.  Every Python value that the   *)
(* code tests with isinstance is a record with a "kind" field.             *)
(***************************************************************************)
EXTENDS Integers, Sequences, FiniteSets, TLC

VARIABLES
    call,                \* the builder callback (or pure function) last invoked, with its arguments
    ret,                 \* what that invocation returned, or the exception it raised
    pc,                  \* parse_esgrammar: "parse" | "finish" | "done" | "error"; emit: the method running
    nt_defs,             \* the list of definitions the generic parser collected from the builder
    idx,                 \* finish_grammar: how many definitions the for loop has processed
    nonterminals,        \* finish_grammar: dict nt_name -> definition
    variable_terminals,  \* finish_grammar: set of names
    terminal_set,        \* finish_grammar: set of terminal texts found by hack_production
    result,              \* the Grammar returned, or the error raised
    written,             \* history: the terminal texts written in the grammar text so far
    parse_table,         \* RustParserWriter: the ParseTable handed to __init__ (read-only)
    self_terminals,      \* RustParserWriter: self.terminals
    self_nonterminals,   \* RustParserWriter: self.nonterminals
    out,                 \* RustParserWriter: what has been written to self.out, in order
    state_i,             \* shift / actions: how many states the for loop has processed
    edge_i               \* actions: how many edges of the current state have been compiled

vars == <<call, ret, pc, nt_defs, idx, nonterminals, variable_terminals,
          terminal_set, result, written, parse_table, self_terminals,
          self_nonterminals, out, state_i, edge_i>>

-----------------------------------------------------------------------------
(* Bounds of the model.                                                    *)

MaxAlts == 3      \* alternatives per definition handed to make_nt_def
MaxOneOf == 3     \* terminals in a "one of" list
MaxArgs == 3      \* bindings in one nonterminal_apply
MaxExcl == 2      \* exclusions in one la_not_in_set
MaxDefs == 2      \* definitions in one grammar text
MaxLen == 3       \* characters of a terminal handed to terminal_name

-----------------------------------------------------------------------------
(* Python values.                                                          *)

Backtick == "<grave>"          \* the character U+0060
None == [kind |-> "None"]
Str(text) == [kind |-> "str", text |-> text]
Bool(b) == [kind |-> "bool", value |-> b]
List(items) == [kind |-> "list", body |-> items]
Raise(error) == [kind |-> "raise", exception |-> "ValueError", error |-> error]

SIGIL_FALSE == "~"
SIGIL_TRUE == "+"

Digits == <<"0", "1", "2", "3", "4", "5", "6", "7", "8", "9">>

\* '{}'.format(i) for a natural number i
RECURSIVE FormatInt(_)
FormatInt(n) ==
    IF n < 10 THEN <<Digits[n + 1]>>
    ELSE FormatInt(n \div 10) \o <<Digits[(n % 10) + 1]>>

\* the values a Python for loop over x visits: the items of a list, the
\* characters (each a str) of a str
Iterate(x) ==
    IF x.kind = "str" THEN [j \in 1..Len(x.text) |-> Str(<<x.text[j]>>)]
    ELSE x.body

-----------------------------------------------------------------------------
(* jsparagus.grammar: the constructors the builder calls.                  *)

ConditionalRhs(name, value, rhs) ==
    [kind |-> "ConditionalRhs", name |-> name, value |-> value, rhs |-> rhs]
LookaheadRule(set, positive) ==
    [kind |-> "LookaheadRule", set |-> set, positive |-> positive]
Optional(inner) == [kind |-> "Optional", inner |-> inner]
Apply(nt, args) == [kind |-> "Apply", nt |-> nt, args |-> args]
Var(name) == [kind |-> "Var", name |-> name]
Parameterized(params, body) ==
    [kind |-> "Parameterized", params |-> params, body |-> body]
CallMethod(method, args) ==
    [kind |-> "CallMethod", method |-> method, args |-> args]
Production(nt, body, action) ==
    [kind |-> "Production", nt |-> nt, body |-> body, action |-> action]
Grammar(nts, vts) ==
    [kind |-> "Grammar", nonterminals |-> nts, variable_terminals |-> vts]

\* True for the elements that contribute a positional argument: terminals,
\* nonterminal references (plain, optional, applied, with an exclusion);
\* false for lookahead assertions and the no-LineTerminator marker.
is_concrete_element(e) ==
    e.kind \notin {"LookaheadRule", "NoLineTerminatorHere", "LookaheadNt"}

-----------------------------------------------------------------------------
(* ESGrammarBuilder.                                                       *)

single(x) == <<x>>
append(x, y) == x \o <<y>>
concat(x, y) == x \o y

\* tuple(range(nargs))
Range(nargs) == [j \in 1..nargs |-> j - 1]

MethodNameOneBased(nt_name, i, is_sole_production) ==
    IF is_sole_production THEN nt_name
    ELSE nt_name \o <<" ">> \o FormatInt(i + 1)

method_name(nt_name, i, is_sole_production) ==
    IF is_sole_production THEN nt_name
    ELSE nt_name \o <<" ">> \o FormatInt(i)

nargs(rhs) ==
    Cardinality({j \in DOMAIN Iterate(rhs) : is_concrete_element(Iterate(rhs)[j])})

RECURSIVE to_production(_, _, _, _)
to_production(lhs, i, rhs, is_sole_production) ==
    IF rhs.kind = "ConditionalRhs"
    THEN [rhs EXCEPT !.rhs = to_production(lhs, i, rhs.rhs, is_sole_production)]
    ELSE LET nt_name == IF lhs.kind = "tuple" THEN lhs.name ELSE lhs.text
             action == CallMethod(method_name(nt_name, i, is_sole_production),
                                  Range(nargs(rhs)))
         IN  Production(nt_name, rhs, action)

make_nt_def(lhs, eq, rhs_list) ==
    LET has_sole_production == (Len(rhs_list) = 1)
        prods == [j \in 1..Len(rhs_list) |->
                    to_production(lhs, j - 1, rhs_list[j], has_sole_production)]
    IN  IF lhs.kind = "tuple"
        THEN [name |-> lhs.name, eq |-> eq, rhs |-> Parameterized(lhs.params, prods)]
        ELSE [name |-> lhs.text, eq |-> eq, rhs |-> List(prods)]

nt_def(nt_lhs, eq, rhs_lines) == make_nt_def(nt_lhs, eq, rhs_lines)

OneOfReversed(nt_lhs, eq, terminals) ==
    make_nt_def(nt_lhs, eq,
                [j \in 1..Len(terminals) |->
                    List(<<terminals[Len(terminals) + 1 - j]>>)])

nt_def_one_of(nt_lhs, eq, terminals) ==
    make_nt_def(nt_lhs, eq, [j \in 1..Len(terminals) |-> List(<<terminals[j]>>)])

nt_lhs_fn(name, params) == [kind |-> "tuple", name |-> name, params |-> params]

\* t[1:-1]
terminal(t) == Str(SubSeq(t, 2, Len(t) - 1))

nonterminal(nt) == Str(nt)

rhs_line(ifdef, rhs) ==
    IF ifdef.kind # "None" THEN ConditionalRhs(ifdef.name, ifdef.value, rhs)
    ELSE rhs

rhs_line_prose(prose) == Str(prose)

empty_rhs == List(<<>>)

ifdef(value, nt) == [kind |-> "tuple", name |-> nt, value |-> value]

optional(nt) == Optional(nt)

no_line_terminator_here == [kind |-> "NoLineTerminatorHere"]

NonterminalApplyUnchecked(name, args) == Apply(name, args)

nonterminal_apply(name, args) ==
    IF Cardinality({args[j][1] : j \in 1..Len(args)}) # Len(args)
    THEN Raise("parameter passed multiple times")
    ELSE Apply(name, args)

arg_expr(sigil, argname) ==
    IF sigil.kind = "str" /\ sigil.text = <<"?">> THEN <<argname, Var(argname)>>
    ELSE <<argname, sigil>>

sigil_false(sigil) == Bool(FALSE)
sigil_true(sigil) == Bool(TRUE)

la_eq(t) == LookaheadRule({t}, TRUE)

la_ne(t) == LookaheadRule({t}, FALSE)

la_not_in_nonterminal(nt) == [kind |-> "LookaheadNt", nt |-> nt]

LaNotInSetFirstTokens(lookahead_exclusions) ==
    LookaheadRule({lookahead_exclusions[j][1] :
                      j \in {k \in 1..Len(lookahead_exclusions) :
                                Len(lookahead_exclusions[k]) >= 1}},
                  FALSE)

la_not_in_set(lookahead_exclusions) ==
    IF \A j \in 1..Len(lookahead_exclusions) : Len(lookahead_exclusions[j]) = 1
    THEN LookaheadRule({lookahead_exclusions[j][1] :
                           j \in 1..Len(lookahead_exclusions)}, FALSE)
    ELSE Raise("unsupported: lookahead > 1 token")

-----------------------------------------------------------------------------
(* Python str methods, on the characters the model uses: the ASCII         *)
(* letters are the cased and the alphabetic characters.                    *)

LowerLetters ==
    <<"a", "b", "c", "d", "e", "f", "g", "h", "i", "j", "k", "l", "m", "n", "o", "p", "q", "r", "s", "t", "u", "v", "w", "x", "y", "z">>
UpperLetters ==
    <<"A", "B", "C", "D", "E", "F", "G", "H", "I", "J", "K", "L", "M", "N", "O", "P", "Q", "R", "S", "T", "U", "V", "W", "X", "Y", "Z">>

IsLowerChar(c) == \E i \in 1..26 : LowerLetters[i] = c
IsUpperChar(c) == \E i \in 1..26 : UpperLetters[i] = c
upper_char(c) ==
    IF IsLowerChar(c) THEN UpperLetters[CHOOSE i \in 1..26 : LowerLetters[i] = c] ELSE c
lower_char(c) ==
    IF IsUpperChar(c) THEN LowerLetters[CHOOSE i \in 1..26 : UpperLetters[i] = c] ELSE c

isalpha(s) == Len(s) >= 1 /\ \A i \in 1..Len(s) : IsLowerChar(s[i]) \/ IsUpperChar(s[i])
islower(s) ==
    /\ \E i \in 1..Len(s) : IsLowerChar(s[i])
    /\ \A i \in 1..Len(s) : ~IsUpperChar(s[i])
lower(s) == [i \in 1..Len(s) |-> lower_char(s[i])]
capitalize(s) ==
    [i \in 1..Len(s) |-> IF i = 1 THEN upper_char(s[i]) ELSE lower_char(s[i])]
\* s.replace(old, new), old and new one character each
replace(s, old, new) == [i \in 1..Len(s) |-> IF s[i] = old THEN new ELSE s[i]]

RECURSIVE split(_, _)
split(s, sep) ==
    IF \A i \in 1..Len(s) : s[i] # sep THEN <<s>>
    ELSE LET i == CHOOSE k \in 1..Len(s) :
                      s[k] = sep /\ \A m \in 1..(k - 1) : s[m] # sep
         IN  <<SubSeq(s, 1, i - 1)>> \o split(SubSeq(s, i + 1, Len(s)), sep)

RECURSIVE join(_, _)
join(sep, words) ==
    IF words = <<>> THEN <<>>
    ELSE IF Len(words) = 1 THEN words[1]
    ELSE words[1] \o sep \o join(sep, Tail(words))

\* the characters the Unicode database names (unicodedata.name), among those
\* the model uses; it names no control character
Tab == "<TAB>"                 \* the character U+0009
UnicodeNames ==
       ("g" :> <<"L", "A", "T", "I", "N", " ", "S", "M", "A", "L", "L", " ", "L", "E", "T", "T", "E", "R", " ", "G">>)
    @@ ("T" :> <<"L", "A", "T", "I", "N", " ", "C", "A", "P", "I", "T", "A", "L", " ", "L", "E", "T", "T", "E", "R", " ", "T">>)
    @@ (">" :> <<"G", "R", "E", "A", "T", "E", "R", "-", "T", "H", "A", "N", " ", "S", "I", "G", "N">>)
    @@ ("=" :> <<"E", "Q", "U", "A", "L", "S", " ", "S", "I", "G", "N">>)
    @@ ("@" :> <<"C", "O", "M", "M", "E", "R", "C", "I", "A", "L", " ", "A", "T">>)
    @@ ("-" :> <<"H", "Y", "P", "H", "E", "N", "-", "M", "I", "N", "U", "S">>)

-----------------------------------------------------------------------------
(* RustParserWriter: the names of the terminals.                           *)

TERMINAL_NAMES ==
       (<<"{">> :> <<"O", "p", "e", "n", "B", "r", "a", "c", "e">>)
    @@ (<<"}">> :> <<"C", "l", "o", "s", "e", "B", "r", "a", "c", "e">>)
    @@ (<<"(">> :> <<"O", "p", "e", "n", "P", "a", "r", "e", "n", "t", "h", "e", "s", "i", "s">>)
    @@ (<<")">> :> <<"C", "l", "o", "s", "e", "P", "a", "r", "e", "n", "t", "h", "e", "s", "i", "s">>)
    @@ (<<"[">> :> <<"O", "p", "e", "n", "B", "r", "a", "c", "k", "e", "t">>)
    @@ (<<"]">> :> <<"C", "l", "o", "s", "e", "B", "r", "a", "c", "k", "e", "t">>)
    @@ (<<"+">> :> <<"P", "l", "u", "s">>)
    @@ (<<"-">> :> <<"M", "i", "n", "u", "s">>)
    @@ (<<"~">> :> <<"B", "i", "t", "w", "i", "s", "e", "N", "o", "t">>)
    @@ (<<"!">> :> <<"L", "o", "g", "i", "c", "a", "l", "N", "o", "t">>)
    @@ (<<"+", "+">> :> <<"I", "n", "c", "r", "e", "m", "e", "n", "t">>)
    @@ (<<"-", "-">> :> <<"D", "e", "c", "r", "e", "m", "e", "n", "t">>)
    @@ (<<":">> :> <<"C", "o", "l", "o", "n">>)
    @@ (<<"=", ">">> :> <<"A", "r", "r", "o", "w">>)
    @@ (<<"=">> :> <<"E", "q", "u", "a", "l", "S", "i", "g", "n">>)
    @@ (<<"*", "=">> :> <<"M", "u", "l", "t", "i", "p", "l", "y", "A", "s", "s", "i", "g", "n">>)
    @@ (<<"/", "=">> :> <<"D", "i", "v", "i", "d", "e", "A", "s", "s", "i", "g", "n">>)
    @@ (<<"%", "=">> :> <<"R", "e", "m", "a", "i", "n", "d", "e", "r", "A", "s", "s", "i", "g", "n">>)
    @@ (<<"+", "=">> :> <<"A", "d", "d", "A", "s", "s", "i", "g", "n">>)
    @@ (<<"-", "=">> :> <<"S", "u", "b", "t", "r", "a", "c", "t", "A", "s", "s", "i", "g", "n">>)
    @@ (<<"<", "<", "=">> :> <<"L", "e", "f", "t", "S", "h", "i", "f", "t", "A", "s", "s", "i", "g", "n">>)
    @@ (<<">", ">", "=">> :> <<"S", "i", "g", "n", "e", "d", "R", "i", "g", "h", "t", "S", "h", "i", "f", "t", "A", "s", "s", "i", "g", "n">>)
    @@ (<<">", ">", ">", "=">> :> <<"U", "n", "s", "i", "g", "n", "e", "d", "R", "i", "g", "h", "t", "S", "h", "i", "f", "t", "A", "s", "s", "i", "g", "n">>)
    @@ (<<"&", "=">> :> <<"B", "i", "t", "w", "i", "s", "e", "A", "n", "d", "A", "s", "s", "i", "g", "n">>)
    @@ (<<"^", "=">> :> <<"B", "i", "t", "w", "i", "s", "e", "X", "o", "r", "A", "s", "s", "i", "g", "n">>)
    @@ (<<"|", "=">> :> <<"B", "i", "t", "w", "i", "s", "e", "O", "r", "A", "s", "s", "i", "g", "n">>)
    @@ (<<"*", "*", "=">> :> <<"E", "x", "p", "o", "n", "e", "n", "t", "i", "a", "t", "e", "A", "s", "s", "i", "g", "n">>)
    @@ (<<".">> :> <<"D", "o", "t">>)
    @@ (<<"*", "*">> :> <<"E", "x", "p", "o", "n", "e", "n", "t", "i", "a", "t", "e">>)
    @@ (<<"?", ".">> :> <<"O", "p", "t", "i", "o", "n", "a", "l", "C", "h", "a", "i", "n">>)
    @@ (<<"?">> :> <<"Q", "u", "e", "s", "t", "i", "o", "n", "M", "a", "r", "k">>)
    @@ (<<"?", "?">> :> <<"C", "o", "a", "l", "e", "s", "c", "e">>)
    @@ (<<"*">> :> <<"S", "t", "a", "r">>)
    @@ (<<"/">> :> <<"D", "i", "v", "i", "d", "e">>)
    @@ (<<"%">> :> <<"R", "e", "m", "a", "i", "n", "d", "e", "r">>)
    @@ (<<"<", "<">> :> <<"L", "e", "f", "t", "S", "h", "i", "f", "t">>)
    @@ (<<">", ">">> :> <<"S", "i", "g", "n", "e", "d", "R", "i", "g", "h", "t", "S", "h", "i", "f", "t">>)
    @@ (<<">", ">", ">">> :> <<"U", "n", "s", "i", "g", "n", "e", "d", "R", "i", "g", "h", "t", "S", "h", "i", "f", "t">>)
    @@ (<<"<">> :> <<"L", "e", "s", "s", "T", "h", "a", "n">>)
    @@ (<<">">> :> <<"G", "r", "e", "a", "t", "e", "r", "T", "h", "a", "n">>)
    @@ (<<"<", "=">> :> <<"L", "e", "s", "s", "T", "h", "a", "n", "O", "r", "E", "q", "u", "a", "l", "T", "o">>)
    @@ (<<">", "=">> :> <<"G", "r", "e", "a", "t", "e", "r", "T", "h", "a", "n", "O", "r", "E", "q", "u", "a", "l", "T", "o">>)
    @@ (<<"=", "=">> :> <<"L", "a", "x", "E", "q", "u", "a", "l">>)
    @@ (<<"!", "=">> :> <<"L", "a", "x", "N", "o", "t", "E", "q", "u", "a", "l">>)
    @@ (<<"=", "=", "=">> :> <<"S", "t", "r", "i", "c", "t", "E", "q", "u", "a", "l">>)
    @@ (<<"!", "=", "=">> :> <<"S", "t", "r", "i", "c", "t", "N", "o", "t", "E", "q", "u", "a", "l">>)
    @@ (<<"&">> :> <<"B", "i", "t", "w", "i", "s", "e", "A", "n", "d">>)
    @@ (<<"^">> :> <<"B", "i", "t", "w", "i", "s", "e", "X", "o", "r">>)
    @@ (<<"|">> :> <<"B", "i", "t", "w", "i", "s", "e", "O", "r">>)
    @@ (<<"&", "&">> :> <<"L", "o", "g", "i", "c", "a", "l", "A", "n", "d">>)
    @@ (<<"|", "|">> :> <<"L", "o", "g", "i", "c", "a", "l", "O", "r">>)
    @@ (<<",">> :> <<"C", "o", "m", "m", "a">>)
    @@ (<<".", ".", ".">> :> <<"E", "l", "l", "i", "p", "s", "i", "s">>)

End == [kind |-> "End"]
ErrorToken == [kind |-> "ErrorToken"]
ErrorSymbol(error_code) == [kind |-> "ErrorSymbol", error_code |-> error_code]

to_camel_case(ident) ==
    IF \E i \in 1..Len(ident) : ident[i] = "_"
    THEN LET words == split(ident, "_")
         IN  join(<<>>, [i \in 1..Len(words) |-> capitalize(words[i])])
    ELSE IF islower(ident) THEN capitalize(ident)
    ELSE ident

terminal_name(value) ==
    IF value.kind \in {"End", "None"} THEN Str(<<"E", "n", "d">>)
    ELSE IF value.kind \in {"ErrorSymbol", "ErrorToken"}
    THEN Str(<<"E", "r", "r", "o", "r", "T", "o", "k", "e", "n">>)
    ELSE IF value.text \in DOMAIN TERMINAL_NAMES THEN Str(TERMINAL_NAMES[value.text])
    ELSE IF isalpha(value.text)
    THEN IF islower(value.text) THEN Str(capitalize(value.text)) ELSE value
    ELSE IF \E i \in 1..Len(value.text) : value.text[i] \notin DOMAIN UnicodeNames
    THEN [kind |-> "raise", exception |-> "ValueError", error |-> "no such name"]
    ELSE LET raw_name == join(<<" ">>, [i \in 1..Len(value.text) |->
                                           UnicodeNames[value.text[i]]])
             snake_case == lower(replace(replace(raw_name, "-", " "), " ", "_"))
         IN  Str(to_camel_case(snake_case))

terminal_name_camel(value) ==
    LET name == terminal_name(value)
    IN  IF name.kind = "raise" THEN name ELSE Str(to_camel_case(name.text))

-----------------------------------------------------------------------------
(* The inputs the generic parser hands to the builder.                     *)

SeqsUpTo(S, n) == UNION {[1..k -> S] : k \in 0..n}
NonEmptySeqsUpTo(S, n) == UNION {[1..k -> S] : k \in 1..n}

NtNames == {<<"A">>, <<"B">>}
FlagNames == {<<"I", "n">>, <<"Y", "i", "e", "l", "d">>}
EqMarkers == {<<":">>, <<":", ":">>}          \* EQ tokens: r':+'
TTokens == {<<Backtick, "x", Backtick>>, <<Backtick, "y", Backtick>>,
            <<Backtick, "B", Backtick>>}      \* T tokens, quoted with backticks

Lhs == {Str(n) : n \in NtNames} \cup {nt_lhs_fn(<<"A">>, <<<<"I", "n">>>>)}

tok_x == <<Backtick, "x", Backtick>>

\* right-hand sides as rhs_line, rhs_line_prose and empty_rhs return them
RhsLines ==
    { empty_rhs,
      rhs_line(None, List(<<terminal(tok_x)>>)),
      rhs_line(None, List(<<terminal(tok_x), nonterminal(<<"B">>)>>)),
      rhs_line(None, List(<<la_ne(<<"x">>), nonterminal(<<"B">>)>>)),
      rhs_line(None, List(<<nonterminal(<<"B">>), no_line_terminator_here,
                            terminal(tok_x), optional(<<"B">>)>>)),
      rhs_line_prose(<<">", " ", "a">>),
      rhs_line(ifdef(TRUE, <<"I", "n">>), List(<<terminal(tok_x)>>)),
      rhs_line(ifdef(FALSE, <<"I", "n">>),
               List(<<la_not_in_nonterminal(<<"B">>), terminal(tok_x),
                      nonterminal(<<"B">>)>>)) }

LongAlts == 11    \* a definition with this many (equal) alternatives

RhsLists ==
    NonEmptySeqsUpTo(RhsLines, MaxAlts)
        \cup {[j \in 1..LongAlts |-> r] : r \in RhsLines}

ArgExprs ==
    {arg_expr(sigil_true(SIGIL_TRUE), f) : f \in FlagNames}
        \cup {arg_expr(sigil_false(SIGIL_FALSE), f) : f \in FlagNames}
        \cup {arg_expr(Str(<<"?">>), f) : f \in FlagNames}

\* one lookahead exclusion is a list of terminals
Exclusions == SeqsUpTo({<<"x">>, <<"y">>}, 2)

-----------------------------------------------------------------------------
(* The builder's callbacks, each invoked on arguments of the parser's; the  *)
(* callbacks keep no state between two invocations.                        *)

emitterVars == <<parse_table, self_terminals, self_nonterminals, out,
                 state_i, edge_i>>

\* no RustParserWriter has been constructed
EmitterIdle ==
    /\ parse_table = None /\ self_terminals = <<>> /\ self_nonterminals = <<>>
    /\ out = <<>> /\ state_i = 0 /\ edge_i = 0

FrontEndIdle ==
    /\ pc = "idle" /\ nt_defs = <<>> /\ idx = 0
    /\ nonterminals = <<>> /\ variable_terminals = {} /\ terminal_set = {}
    /\ result = None /\ written = {}
    /\ EmitterIdle

frontEndVars == <<pc, nt_defs, idx, nonterminals, variable_terminals,
                  terminal_set, result, written>>

NoCall == [fn |-> "none"]

InitBuilder ==
    /\ call = NoCall
    /\ ret = None
    /\ FrontEndIdle

NtDef ==
    /\ call = NoCall
    /\ \E lhs \in Lhs, eq \in EqMarkers, rhs_lines \in RhsLists :
        /\ call' = [fn |-> "nt_def", lhs |-> lhs, eq |-> eq, rhs_lines |-> rhs_lines]
        /\ ret' = nt_def(lhs, eq, rhs_lines)
    /\ UNCHANGED frontEndVars
    /\ UNCHANGED emitterVars

NtDefOneOf ==
    /\ call = NoCall
    /\ \E lhs \in Lhs, eq \in EqMarkers, toks \in NonEmptySeqsUpTo(TTokens, MaxOneOf) :
        LET terminals == [j \in 1..Len(toks) |-> terminal(toks[j])]
        IN  /\ call' = [fn |-> "nt_def_one_of", lhs |-> lhs, eq |-> eq,
                        terminals |-> terminals]
            /\ ret' = nt_def_one_of(lhs, eq, terminals)
    /\ UNCHANGED frontEndVars
    /\ UNCHANGED emitterVars

NonterminalApply ==
    /\ call = NoCall
    /\ \E name \in NtNames, args \in NonEmptySeqsUpTo(ArgExprs, MaxArgs) :
        /\ call' = [fn |-> "nonterminal_apply", name |-> name, args |-> args]
        /\ ret' = nonterminal_apply(name, args)
    /\ UNCHANGED frontEndVars
    /\ UNCHANGED emitterVars

LaEq ==
    /\ call = NoCall
    /\ \E t \in {<<"x">>, <<"y">>} :
        /\ call' = [fn |-> "la_eq", t |-> t]
        /\ ret' = la_eq(t)
    /\ UNCHANGED frontEndVars
    /\ UNCHANGED emitterVars

LaNe ==
    /\ call = NoCall
    /\ \E t \in {<<"x">>, <<"y">>} :
        /\ call' = [fn |-> "la_ne", t |-> t]
        /\ ret' = la_ne(t)
    /\ UNCHANGED frontEndVars
    /\ UNCHANGED emitterVars

LaNotInSet ==
    /\ call = NoCall
    /\ \E lookahead_exclusions \in SeqsUpTo(Exclusions, MaxExcl) :
        /\ call' = [fn |-> "la_not_in_set",
                    lookahead_exclusions |-> lookahead_exclusions]
        /\ ret' = la_not_in_set(lookahead_exclusions)
    /\ UNCHANGED frontEndVars
    /\ UNCHANGED emitterVars

\* the callback's value is handed to the parser, which goes on
Returned ==
    /\ call # NoCall
    /\ call' = NoCall
    /\ ret' = None
    /\ UNCHANGED frontEndVars
    /\ UNCHANGED emitterVars

NextBuilder ==
    \/ NtDef
    \/ NtDefOneOf
    \/ NonterminalApply
    \/ LaEq
    \/ LaNe
    \/ LaNotInSet
    \/ Returned

SpecBuilder == InitBuilder /\ [][NextBuilder]_vars

-----------------------------------------------------------------------------
(* finish_grammar.                                                         *)

UnrecognizedSymbol == "Unrecognized grammar symbol"
IfdefContext == "invalid grammar: ifdef in non-function-call context"
MultipleDefinitions == "unsupported: multiple definitions for nt"
TerminalAndNonterminal == "grammar contains both a terminal and nonterminal"

\* isinstance(e, str) and e[:1] == "`"
starts_quoted(e) == e.kind = "str" /\ SubSeq(e.text, 1, 1) = <<Backtick>>

\* len(e) < 3 or e[-1:] != "`"
malformed(e) == Len(e.text) < 3 \/ e.text[Len(e.text)] # Backtick

\* hack_production(p): the production with its quoted literals rewritten to
\* bare terminals, and the terminals found; or the error raised
hack_production(p) ==
    LET es == Iterate(p.body)
        quoted == {i \in 1..Len(es) : starts_quoted(es[i])}
    IN  IF \E i \in quoted : malformed(es[i])
        THEN Raise(UnrecognizedSymbol)
        ELSE [kind |-> "ok",
              p |-> [p EXCEPT !.body =
                        IF quoted = {} THEN p.body
                        ELSE List([i \in 1..Len(es) |->
                                     IF i \in quoted
                                     THEN Str(SubSeq(es[i].text, 2, Len(es[i].text) - 1))
                                     ELSE es[i]])],
              tokens |-> {SubSeq(es[i].text, 2, Len(es[i].text) - 1) : i \in quoted}]

\* the loop over the productions of one non-parameterized definition
RECURSIVE scan_productions(_, _, _)
scan_productions(rhs_list, j, ts) ==
    IF j > Len(rhs_list)
    THEN [kind |-> "ok", rhs_list |-> rhs_list, terminal_set |-> ts]
    ELSE IF rhs_list[j].kind # "Production"
    THEN Raise(IfdefContext)
    ELSE LET h == hack_production(rhs_list[j])
         IN  IF h.kind = "raise" THEN h
             ELSE scan_productions([rhs_list EXCEPT ![j] = h.p], j + 1,
                                   ts \cup h.tokens)

IsParameterizedNever(rhs_list_or_lambda) == FALSE

\* isinstance(rhs_list_or_lambda, grammar.Parameterized)
is_parameterized(rhs_list_or_lambda) == rhs_list_or_lambda.kind = "Parameterized"

RegistersAnyMarker(eq) == TRUE

\* if eq == ':'
registers(eq) == eq = <<":">>

IsDefinedNever(nt_name, nts) == FALSE

\* if nt_name in nonterminals
is_defined(nt_name, nts) == nt_name \in DOMAIN nts

\* nonterminals[nt_name] = value
dict_set(nts, nt_name, value) ==
    [n \in DOMAIN nts \cup {nt_name} |-> IF n = nt_name THEN value ELSE nts[n]]

\* one iteration of the loop over nt_defs: the dict, the two sets and the
\* definition (its productions rewritten in place) afterwards; or the error
finish_definition(def, nts, vts, ts) ==
    LET vts2 == IF def.eq = <<":", ":">> THEN vts \cup {def.name} ELSE vts
    IN  IF is_parameterized(def.rhs)
        THEN [kind |-> "ok", def |-> def, nonterminals |-> dict_set(nts, def.name, def.rhs),
              variable_terminals |-> vts2, terminal_set |-> ts]
        ELSE LET scan == scan_productions(def.rhs.body, 1, ts)
             IN  IF scan.kind = "raise" THEN scan
                 ELSE IF registers(def.eq) /\ is_defined(def.name, nts)
                 THEN Raise(MultipleDefinitions)
                 ELSE [kind |-> "ok",
                       def |-> [def EXCEPT !.rhs = [@ EXCEPT !.body = scan.rhs_list]],
                       nonterminals |->
                           IF registers(def.eq)
                           THEN dict_set(nts, def.name,
                                         [def.rhs EXCEPT !.body = scan.rhs_list])
                           ELSE nts,
                       variable_terminals |-> vts2,
                       terminal_set |-> scan.terminal_set]

-----------------------------------------------------------------------------
(* parse_esgrammar: the definitions of a grammar text are built, one by    *)
(* one, and finish_grammar is run on the list.                             *)

tok_B == <<Backtick, "B", Backtick>>
tok_grave == <<Backtick, Backtick, Backtick>>

\* the alternatives of the texts: the right-hand side as it reaches
\* finish_grammar, and the terminals written in it.  A terminal reaches
\* finish_grammar through the builder's terminal(); the second alternative
\* is that of a caller that hands finish_grammar a quoted literal, the form
\* hack_production looks for.
TextAlternatives ==
    { [rhs |-> rhs_line(None, List(<<terminal(tok_B)>>)), terminals |-> {<<"B">>}],
      [rhs |-> rhs_line(None, List(<<Str(tok_B)>>)), terminals |-> {<<"B">>}],
      [rhs |-> rhs_line(ifdef(TRUE, <<"I", "n">>), List(<<terminal(tok_x)>>)),
       terminals |-> {<<"x">>}],
      [rhs |-> rhs_line(None, List(<<terminal(tok_grave)>>)),
       terminals |-> {<<Backtick>>}] }

TextRhsLists ==
    [1..1 -> TextAlternatives]
        \cup { <<a, b>> : a \in {t \in TextAlternatives : t.rhs.kind = "list"},
                          b \in {t \in TextAlternatives : t.rhs.kind = "ConditionalRhs"} }

TextLhs == Lhs

builderVars == <<call, ret>>

Init ==
    /\ call = NoCall
    /\ ret = None
    /\ pc = "parse"
    /\ nt_defs = <<>>
    /\ idx = 0
    /\ nonterminals = <<>>
    /\ variable_terminals = {}
    /\ terminal_set = {}
    /\ result = None
    /\ written = {}
    /\ EmitterIdle

\* the parser reduces one more definition of the text
ParseNtDef ==
    /\ pc = "parse"
    /\ Len(nt_defs) < MaxDefs
    /\ \E lhs \in TextLhs, eq \in EqMarkers, alts \in TextRhsLists :
        /\ nt_defs' = append(nt_defs,
                             make_nt_def(lhs, eq, [j \in 1..Len(alts) |-> alts[j].rhs]))
        /\ written' = written \cup UNION {alts[j].terminals : j \in 1..Len(alts)}
    /\ UNCHANGED <<pc, idx, nonterminals, variable_terminals, terminal_set, result>>
    /\ UNCHANGED builderVars
    /\ UNCHANGED emitterVars

\* the text ends: finish_grammar(nt_defs, goals) starts
CallFinishGrammar ==
    /\ pc = "parse"
    /\ Len(nt_defs) >= 1
    /\ pc' = "finish"
    /\ idx' = 0
    /\ nonterminals' = <<>>
    /\ variable_terminals' = {}
    /\ terminal_set' = {}
    /\ UNCHANGED <<nt_defs, result, written>>
    /\ UNCHANGED builderVars
    /\ UNCHANGED emitterVars

\* for nt_name, eq, rhs_list_or_lambda in nt_defs: one iteration
FinishDefinition ==
    /\ pc = "finish"
    /\ idx < Len(nt_defs)
    /\ LET r == finish_definition(nt_defs[idx + 1], nonterminals,
                                  variable_terminals, terminal_set)
       IN  /\ idx' = idx + 1
           /\ IF r.kind = "raise"
              THEN /\ pc' = "error"
                   /\ result' = r
                   /\ UNCHANGED <<nt_defs, nonterminals, variable_terminals,
                                  terminal_set>>
              ELSE /\ nt_defs' = [nt_defs EXCEPT ![idx + 1] = r.def]
                   /\ nonterminals' = r.nonterminals
                   /\ variable_terminals' = r.variable_terminals
                   /\ terminal_set' = r.terminal_set
                   /\ UNCHANGED <<pc, result>>
    /\ UNCHANGED written
    /\ UNCHANGED builderVars
    /\ UNCHANGED emitterVars

\* for t in terminal_set: if t in nonterminals: raise
RaiseCollision ==
    /\ pc = "finish"
    /\ idx = Len(nt_defs)
    /\ \E t \in terminal_set : t \in DOMAIN nonterminals
    /\ pc' = "error"
    /\ result' = Raise(TerminalAndNonterminal)
    /\ UNCHANGED <<nt_defs, idx, nonterminals, variable_terminals, terminal_set,
                   written>>
    /\ UNCHANGED builderVars
    /\ UNCHANGED emitterVars

\* return grammar.Grammar(nonterminals, goals, variable_terminals)
ReturnGrammar ==
    /\ pc = "finish"
    /\ idx = Len(nt_defs)
    /\ \A t \in terminal_set : t \notin DOMAIN nonterminals
    /\ pc' = "done"
    /\ result' = Grammar(nonterminals, variable_terminals)
    /\ UNCHANGED <<nt_defs, idx, nonterminals, variable_terminals, terminal_set,
                   written>>
    /\ UNCHANGED builderVars
    /\ UNCHANGED emitterVars

Next ==
    \/ ParseNtDef
    \/ CallFinishGrammar
    \/ FinishDefinition
    \/ RaiseCollision
    \/ ReturnGrammar

Spec == Init /\ [][Next]_vars

-----------------------------------------------------------------------------
(* terminal_name, invoked on the terminals a parse table may list.         *)

TerminalChars == {"g", "T", ">", "=", "@", "-", Tab}

TerminalValues ==
    {End, None, ErrorToken, ErrorSymbol(<<"a", "s", "i">>)}
        \cup {Str(t) : t \in DOMAIN TERMINAL_NAMES}
        \cup {Str(<<"g", "e", "t">>)}
        \cup {Str(t) : t \in NonEmptySeqsUpTo(TerminalChars, MaxLen)}

TerminalName ==
    /\ call = NoCall
    /\ \E value \in TerminalValues :
        /\ call' = [fn |-> "terminal_name", value |-> value]
        /\ ret' = terminal_name(value)
    /\ UNCHANGED frontEndVars
    /\ UNCHANGED emitterVars

NextNames ==
    \/ TerminalName
    \/ Returned

SpecNames == InitBuilder /\ [][NextNames]_vars

-----------------------------------------------------------------------------
(* RustParserWriter: the names of the nonterminals.                        *)

\* jsparagus.grammar: a nonterminal key; args binds flag names to booleans
Nt(name, args) == [kind |-> "Nt", name |-> name, args |-> args]
\* jsparagus.grammar: the name of the start nonterminal of a goal
InitNt(goal) == [kind |-> "InitNt", goal |-> goal]

IsDigitChar(c) == \E i \in 1..10 : Digits[i] = c

\* re.sub('(.)([A-Z][a-z]+)', r'\1_\2', s), scanning from position i
RECURSIVE snek_words(_, _)
snek_words(s, i) ==
    IF i > Len(s) THEN <<>>
    ELSE IF i + 2 <= Len(s) /\ IsUpperChar(s[i + 1]) /\ IsLowerChar(s[i + 2])
    THEN LET e == CHOOSE k \in (i + 2)..Len(s) :
                      /\ \A m \in (i + 2)..k : IsLowerChar(s[m])
                      /\ (k = Len(s) \/ ~IsLowerChar(s[k + 1]))
         IN  <<s[i], "_">> \o SubSeq(s, i + 1, e) \o snek_words(s, e + 1)
    ELSE <<s[i]>> \o snek_words(s, i + 1)

\* re.sub('([a-z0-9])([A-Z])', r'\1_\2', s), scanning from position i
RECURSIVE snek_humps(_, _)
snek_humps(s, i) ==
    IF i > Len(s) THEN <<>>
    ELSE IF /\ i + 1 <= Len(s)
            /\ (IsLowerChar(s[i]) \/ IsDigitChar(s[i]))
            /\ IsUpperChar(s[i + 1])
    THEN <<s[i], "_", s[i + 1]>> \o snek_humps(s, i + 2)
    ELSE <<s[i]>> \o snek_humps(s, i + 1)

to_snek_case(ident) == lower(snek_humps(snek_words(ident, 1), 1))

\* ''.join("_" + to_snek_case(name) for name, value in args if value)
RECURSIVE snake_args(_)
snake_args(args) ==
    IF args = <<>> THEN <<>>
    ELSE (IF args[1][2] THEN <<"_">> \o to_snek_case(args[1][1]) ELSE <<>>)
             \o snake_args(Tail(args))

nonterminal_to_snake(ident) ==
    IF ident.kind = "Nt"
    THEN LET name == IF ident.name.kind = "InitNt"
                     THEN <<"S", "t", "a", "r", "t">> \o ident.name.goal.name.text
                     ELSE ident.name.text
         IN  to_snek_case(name) \o snake_args(ident.args)
    ELSE to_snek_case(ident.text)

nonterminal_to_camel(nt) == to_camel_case(nonterminal_to_snake(nt))

upper(s) == [i \in 1..Len(s) |-> upper_char(s[i])]

\* list(OrderedSet(xs)): the first occurrences, in order
RECURSIVE OrderedSet(_)
OrderedSet(xs) ==
    IF xs = <<>> THEN <<>>
    ELSE LET front == OrderedSet(SubSeq(xs, 1, Len(xs) - 1))
             x == xs[Len(xs)]
         IN  IF \E i \in 1..Len(front) : front[i] = x THEN front
             ELSE Append(front, x)

CamelCaseCollision == "have the same camel-case spelling"

\* check_camel_case: the index (in self.nonterminals) of the first nonterminal
\* whose spelling was seen before, 0 when there is none
FirstRespelled(nts) ==
    LET again == {j \in 1..Len(nts) :
                     \E i \in 1..(j - 1) :
                         nonterminal_to_camel(nts[i]) = nonterminal_to_camel(nts[j])}
    IN  IF again = {} THEN 0 ELSE CHOOSE j \in again : \A k \in again : j <= k

check_camel_case(nts) ==
    IF FirstRespelled(nts) = 0 THEN None ELSE Raise(CamelCaseCollision)

-----------------------------------------------------------------------------
(* The ParseTable the writer consumes (jsparagus.parse_table, read-only)   *)
(* and the tables RustParserWriter derives from it.  What is written to    *)
(* self.out is kept as a sequence of items, one per enumerant, table row   *)
(* or emitted operation; comment lines (debug_context) are left out.       *)

\* a cell of a state's transition map
Goto(index) == [kind |-> "int", value |-> index]
IfSameLine(a1, a2) == [kind |-> "IfSameLine", a1 |-> a1, a2 |-> a2]
ERROR == [kind |-> "ERROR"]
ErrorTokenName == Str(<<"E", "r", "r", "o", "r", "T", "o", "k", "e", "n">>)

\* a state: its index, its transitions on terminals and nonterminals, its
\* error-recovery edge (None, or the ErrorSymbol and where it leads), and,
\* for an action state, its edges (action, destination)
ShiftState(index, trans, error) ==
    [kind |-> "State", index |-> index, trans |-> trans, error |-> error,
     edges |-> <<>>]
ActionState(index, edges) ==
    [kind |-> "State", index |-> index, trans |-> <<>>, error |-> None,
     edges |-> edges]
ErrorEdge(symbol, dest) == [symbol |-> symbol, dest |-> dest]

\* state.get_error_symbol()
get_error_symbol(state) == IF state.error = None THEN None ELSE state.error.symbol
\* the number of edges state.shifted_edges() yields
shifted_edges(state) ==
    Cardinality(DOMAIN state.trans) + (IF state.error = None THEN 0 ELSE 1)

ParseTable(terms, nts, states, shift_count, named_goals) ==
    [kind |-> "ParseTable", terminals |-> terms, nonterminals |-> nts,
     states |-> states, shift_count |-> shift_count, named_goals |-> named_goals]
count_shift_states(pt) == pt.shift_count
count_action_states(pt) == Len(pt.states) - pt.shift_count

\* __init__: self.terminals and self.nonterminals
init_terminals(pt) == Append(OrderedSet(pt.terminals), ErrorTokenName)
init_nonterminals(pt) == OrderedSet(pt.nonterminals)

\* terms_id: the enumerants of TerminalId, up to the first terminal whose
\* name cannot be derived
FirstUnnamed(terms) ==
    LET bad == {i \in 1..Len(terms) : terminal_name(terms[i]).kind = "raise"}
    IN  IF bad = {} THEN 0 ELSE CHOOSE i \in bad : \A k \in bad : i <= k
terminal_ids(terms, n) ==
    [i \in 1..n |-> [sec |-> "TerminalId", name |-> terminal_name(terms[i]).text,
                     id |-> i - 1, term |-> terms[i]]]

\* terms_id numbering the nonterminals from 0, without the offset
NonterminalIdsFromZero(nts, offset) ==
    [i \in 1..Len(nts) |-> [sec |-> "NonterminalId",
                            name |-> nonterminal_to_camel(nts[i]),
                            id |-> i - 1, nt |-> nts[i]]]

\* terms_id: the enumerants of NonterminalId, numbered after the terminals
nonterminal_ids(nts, offset) ==
    [i \in 1..Len(nts) |-> [sec |-> "NonterminalId",
                            name |-> nonterminal_to_camel(nts[i]),
                            id |-> (i - 1) + offset, nt |-> nts[i]]]
terms_id(terms, nts) ==
    IF FirstUnnamed(terms) # 0
    THEN [items |-> terminal_ids(terms, FirstUnnamed(terms) - 1),
          raised |-> terminal_name(terms[FirstUnnamed(terms)])]
    ELSE [items |-> terminal_ids(terms, Len(terms))
                       \o nonterminal_ids(nts, Len(terms))
                       \o <<[sec |-> "Term"]>>,
          raised |-> None]

\* state_get without the count of the error-recovery fallback
StateGetFallbackUncounted(state, t) ==
    LET res == IF t \in DOMAIN state.trans THEN state.trans[t] ELSE ERROR
    IN  IF res = ERROR
        THEN IF t = ErrorTokenName /\ get_error_symbol(state) # None
             THEN [res |-> state.error.dest, counted |-> 0]
             ELSE [res |-> res, counted |-> 0]
        ELSE [res |-> res, counted |-> 1]

\* shift.state_get: the cell of state for symbol t, and whether it counts as
\* a shifted edge
state_get(state, t) ==
    LET res == IF t \in DOMAIN state.trans THEN state.trans[t] ELSE ERROR
    IN  IF res = ERROR
        THEN IF t = ErrorTokenName /\ get_error_symbol(state) # None
             THEN [res |-> state.error.dest, counted |-> 1]
             ELSE [res |-> res, counted |-> 0]
        ELSE [res |-> res, counted |-> 1]

RECURSIVE Sum(_)
Sum(xs) == IF xs = <<>> THEN 0 ELSE Head(xs) + Sum(Tail(xs))

\* shift's loop body leaving the ErrorToken cell to the transition map alone
ShiftRowWithoutFallback(state, terms, nts) ==
    LET symbols == terms \o nts
        got == [c \in 1..Len(symbols) |-> state_get(state, symbols[c])]
        num_shifted_edges == Sum([c \in 1..Len(symbols) |-> got[c].counted])
    IN  [row |-> [sec |-> "row", state |-> state.index,
                  cells |-> [c \in 1..Len(symbols) |->
                                IF symbols[c] \in DOMAIN state.trans
                                THEN state.trans[symbols[c]] ELSE ERROR]],
         encoded |-> shifted_edges(state) = num_shifted_edges]

\* one iteration of shift's for loop: the row written and whether the assert
\* on the number of encoded edges holds
shift_row(state, terms, nts) ==
    LET symbols == terms \o nts
        got == [c \in 1..Len(symbols) |-> state_get(state, symbols[c])]
        num_shifted_edges == Sum([c \in 1..Len(symbols) |-> got[c].counted])
    IN  [row |-> [sec |-> "row", state |-> state.index,
                  cells |-> [c \in 1..Len(symbols) |-> got[c].res]],
         encoded |-> shifted_edges(state) = num_shifted_edges]

EdgesNotEncoded == "Some edges are not encoded."

\* error_codes: the distinct error codes of the shift states, and the
\* per-state table
error_codes(states, shift_count) ==
    LET symbols == [i \in 1..shift_count |-> get_error_symbol(states[i])]
        having == SelectSeq(symbols, LAMBDA e : e # None)
        codes == OrderedSet([i \in 1..Len(having) |-> having[i].error_code])
    IN  << [sec |-> "ErrorCode",
            codes |-> [i \in 1..Len(codes) |-> to_camel_case(codes[i])]],
           [sec |-> "STATE_TO_ERROR_CODE", size |-> shift_count,
            entries |-> [i \in 1..shift_count |->
                            IF symbols[i] = None THEN None
                            ELSE Str(to_camel_case(symbols[i].error_code))]] >>

\* entry: the table descriptor and one start-state constant per goal
entry(pt, terms, nts) ==
    << [sec |-> "TABLES", shift_count |-> count_shift_states(pt),
        action_count |-> count_action_states(pt),
        shift_width |-> Len(terms) + Len(nts)] >>
    \o [i \in 1..Len(pt.named_goals) |->
           [sec |-> "START_STATE",
            name |-> upper(nonterminal_to_snake(pt.named_goals[i][1])),
            index |-> pt.named_goals[i][2]]]

-----------------------------------------------------------------------------
(* jsparagus.actions: the actions of the edges of an action state, and     *)
(* RustParserWriter.actions, which compiles them.                          *)

Reduce(nt, pop, replay) ==
    [kind |-> "Reduce", nt |-> nt, pop |-> pop, replay |-> replay]
FunCall(method, args, set_to, offset) ==
    [kind |-> "FunCall", method |-> method, args |-> args, set_to |-> set_to,
     offset |-> offset]
SeqOf(actions) == [kind |-> "Seq", actions |-> actions]   \* jsparagus.actions.Seq
CheckNotOnNewLine(offset) == [kind |-> "CheckNotOnNewLine", offset |-> offset]
Lookahead == [kind |-> "Lookahead"]
FilterFlag == [kind |-> "FilterFlag"]
PushFlag == [kind |-> "PushFlag"]
PopFlag == [kind |-> "PopFlag"]
\* the arguments of a FunCall: a stack offset, a variable name (Str), Some
\* of an argument, or None
Offset(a) == [kind |-> "int", value |-> a]
Some(inner) == [kind |-> "Some", inner |-> inner]

ValueName == <<"v", "a", "l", "u", "e">>
\* "s{}".format(i)
SlotName(i) == <<"s">> \o FormatInt(i)

\* act.update_stack() and act.reduce_with(): a Seq updates the stack when
\* its last sub-action does, and reduces with that sub-action's Reduce
RECURSIVE update_stack(_)
update_stack(act) ==
    IF act.kind = "Reduce" THEN TRUE
    ELSE IF act.kind = "Seq" /\ act.actions # <<>>
    THEN update_stack(act.actions[Len(act.actions)])
    ELSE FALSE
RECURSIVE reduce_with(_)
reduce_with(act) ==
    IF act.kind = "Seq" THEN reduce_with(act.actions[Len(act.actions)]) ELSE act

\* collect_offsets.map_with_offset: the stack slots an argument list uses
RECURSIVE arg_offsets(_, _)
arg_offsets(args, offset) ==
    UNION { IF args[j].kind = "int" THEN {args[j].value + offset}
            ELSE IF args[j].kind = "Some" THEN arg_offsets(<<args[j].inner>>, offset)
            ELSE {} : j \in 1..Len(args) }

RECURSIVE collect_offsets(_, _)
collect_offsets(act, has_ast_builder) ==
    IF act.kind = "Reduce" THEN 1..act.replay
    ELSE IF act.kind = "FunCall"
    THEN IF has_ast_builder \/ act.method = "id"
         THEN arg_offsets(act.args, act.offset) ELSE {}
    ELSE IF act.kind = "Seq"
    THEN UNION {collect_offsets(act.actions[j], has_ast_builder) :
                    j \in 1..Len(act.actions)}
    ELSE {}

\* is_packed[name] = packed
packed_set(is_packed, name, packed) ==
    [n \in DOMAIN is_packed \cup {name} |->
        IF n = name THEN packed ELSE is_packed[n]]

\* unpack taking a variable without an entry for an unpacked one
UnpackUnlessRecorded(is_packed, val) ==
    [kind |-> "var", name |-> val,
     unwrap |-> IF val \in DOMAIN is_packed THEN is_packed[val] ELSE FALSE]

\* write_action.unpack and no_unpack: how a variable is passed
unpack(is_packed, val) ==
    [kind |-> "var", name |-> val,
     unwrap |-> IF val \in DOMAIN is_packed THEN is_packed[val] ELSE TRUE]
no_unpack(val) == [kind |-> "var", name |-> val, unwrap |-> FALSE]

\* write_action.map_with_offset, one argument: the expression emitted for
\* it, or the ValueError it raises
RECURSIVE arg_expression(_, _, _, _)
arg_expression(a, offset, is_packed, unpacking) ==
    IF a.kind = "int"
    THEN IF unpacking THEN unpack(is_packed, SlotName(a.value + offset))
         ELSE no_unpack(SlotName(a.value + offset))
    ELSE IF a.kind = "str"
    THEN IF unpacking THEN unpack(is_packed, a.text) ELSE no_unpack(a.text)
    ELSE IF a.kind = "Some"
    THEN LET inner == arg_expression(a.inner, offset, is_packed, unpacking)
         IN  IF inner.kind = "raise" THEN inner
             ELSE [kind |-> "Some", inner |-> inner]
    ELSE IF a.kind = "None" THEN None
    ELSE Raise("ValueError(a)")

FallibleMethods == {"may_fail"}

Op(op) == [sec |-> "op", op |-> op]
Compiled(ops, is_packed, status) ==
    [ops |-> ops, is_packed |-> is_packed, status |-> status, error |-> "none"]
Aborted(ops, is_packed, error) ==
    [ops |-> ops, is_packed |-> is_packed, status |-> "raise", error |-> error]

\* the Reduce branch replaying the reduced pair before the replay slots
WriteReducePairFirst(act, is_packed, has_ast_builder) ==
    Compiled(
        <<[sec |-> "op", op |-> "let_term", nt |-> nonterminal_to_camel(act.nt)],
          [sec |-> "op", op |-> "replay", arg |-> <<"TermValue">>]>>
        \o [i \in 1..act.replay |->
               [sec |-> "op", op |-> "replay", arg |-> SlotName(i)]]
        \o <<Op("Ok(false)")>>,
        is_packed, "stop")

\* write_action, the Reduce branch
write_reduce(act, is_packed, has_ast_builder) ==
    LET known == ValueName \in DOMAIN is_packed
        packed == IF known THEN is_packed[ValueName] ELSE FALSE
        source == IF known THEN "value" ELSE "None"
        value == IF packed THEN [form |-> "field", of |-> source]
                 ELSE IF has_ast_builder
                 THEN [form |-> "try_into_stack", of |-> source]
                 ELSE [form |-> "plain", of |-> "value"]
    IN  Compiled(
            <<[sec |-> "op", op |-> "let_term", nt |-> nonterminal_to_camel(act.nt)]>>
            \o (IF value # [form |-> "plain", of |-> "value"]
                THEN <<[sec |-> "op", op |-> "let_value", value |-> value]>>
                ELSE <<>>)
            \o [i \in 1..act.replay |->
                   [sec |-> "op", op |-> "replay", arg |-> SlotName(i)]]
            \o <<[sec |-> "op", op |-> "replay", arg |-> <<"TermValue">>],
                 Op("Ok(false)")>>,
            is_packed, "stop")

\* write_action, the FunCall branch
write_funcall(act, is_packed, has_ast_builder) ==
    IF act.method = "id"
    THEN IF Len(act.args) # 1 THEN Aborted(<<>>, is_packed, "AssertionError")
         ELSE LET e == arg_expression(act.args[1], act.offset, is_packed, FALSE)
              IN  IF e.kind = "raise" THEN Aborted(<<>>, is_packed, e.error)
                  ELSE Compiled(<<[sec |-> "op", op |-> "let", name |-> act.set_to,
                                   value |-> e]>>,
                                packed_set(is_packed, act.set_to, TRUE),
                                "fallthrough")
    ELSE IF act.method = "accept"
    THEN IF Len(act.args) # 0 THEN Aborted(<<>>, is_packed, "AssertionError")
         ELSE Compiled(<<Op("return Ok(true)")>>, is_packed, "stop")
    ELSE IF has_ast_builder
    THEN LET es == [j \in 1..Len(act.args) |->
                       arg_expression(act.args[j], act.offset, is_packed, TRUE)]
         IN  IF \E j \in 1..Len(es) : es[j].kind = "raise"
             THEN Aborted(<<>>, is_packed, "ValueError(a)")
             ELSE Compiled(<<[sec |-> "op", op |-> "call", name |-> act.set_to,
                              method |-> act.method, args |-> es,
                              forward_errors |-> act.method \in FallibleMethods]>>,
                           packed_set(is_packed, act.set_to, FALSE),
                           "fallthrough")
    ELSE Compiled(IF act.set_to = ValueName THEN <<Op("let value = ()")>> ELSE <<>>,
                  is_packed, "fallthrough")

\* the pops of a Seq counted from the reducer's pop alone, without its replay
WritePopsOfPopOnly(act, used_offsets) ==
    IF update_stack(act)
    THEN LET reducer == reduce_with(act)
             depth == reducer.pop
         IN  [i \in 1..depth |->
                 [sec |-> "op", op |-> "pop", slot |-> i,
                  name |-> (IF i \notin used_offsets THEN <<"_", "s">> ELSE <<"s">>)
                               \o FormatInt(i)]]
    ELSE <<>>

\* write_action, the pops a Seq that updates the stack starts with
write_pops(act, used_offsets) ==
    IF update_stack(act)
    THEN LET reducer == reduce_with(act)
             depth == reducer.pop + reducer.replay
         IN  [i \in 1..depth |->
                 [sec |-> "op", op |-> "pop", slot |-> i,
                  name |-> (IF i \notin used_offsets THEN <<"_", "s">> ELSE <<"s">>)
                               \o FormatInt(i)]]
    ELSE <<>>

RECURSIVE write_action(_, _, _, _)
RECURSIVE write_actions(_, _, _, _, _, _)

\* the loop over the sub-actions of a Seq going on after a sub-action that
\* signals stop
RECURSIVE WriteActionsPastStop(_, _, _, _, _, _)
WriteActionsPastStop(actions, j, ops, is_packed, used_offsets, has_ast_builder) ==
    IF j > Len(actions) THEN Compiled(ops, is_packed, "fallthrough")
    ELSE LET r == write_action(actions[j], is_packed, used_offsets, has_ast_builder)
         IN  IF r.status # "raise"
             THEN WriteActionsPastStop(actions, j + 1, ops \o r.ops, r.is_packed,
                                       used_offsets, has_ast_builder)
             ELSE [r EXCEPT !.ops = ops \o r.ops]

\* write_action's loop over the sub-actions of a Seq, from the j-th on
write_actions(actions, j, ops, is_packed, used_offsets, has_ast_builder) ==
    IF j > Len(actions) THEN Compiled(ops, is_packed, "fallthrough")
    ELSE LET r == write_action(actions[j], is_packed, used_offsets, has_ast_builder)
         IN  IF r.status = "fallthrough"
             THEN write_actions(actions, j + 1, ops \o r.ops, r.is_packed,
                                used_offsets, has_ast_builder)
             ELSE [r EXCEPT !.ops = ops \o r.ops]

write_action(act, is_packed, used_offsets, has_ast_builder) ==
    IF act.kind = "Reduce" THEN write_reduce(act, is_packed, has_ast_builder)
    ELSE IF act.kind = "CheckNotOnNewLine"
    THEN Compiled(<<[sec |-> "op", op |-> "check_not_on_new_line",
                     peek |-> 1 - act.offset]>>, is_packed, "fallthrough")
    ELSE IF act.kind = "Lookahead"
    THEN Aborted(<<>>, is_packed, "Unexpected Lookahead action")
    ELSE IF act.kind = "FilterFlag"
    THEN Aborted(<<>>, is_packed, "NYI: FilterFlag action")
    ELSE IF act.kind = "PushFlag"
    THEN Aborted(<<>>, is_packed, "NYI: PushFlag action")
    ELSE IF act.kind = "PopFlag"
    THEN Aborted(<<>>, is_packed, "NYI: PopFlag action")
    ELSE IF act.kind = "FunCall" THEN write_funcall(act, is_packed, has_ast_builder)
    ELSE IF act.kind = "Seq"
    THEN write_actions(act.actions, 1, write_pops(act, used_offsets), is_packed,
                       used_offsets, has_ast_builder)
    ELSE Aborted(<<>>, is_packed, "Unknow action type")

\* the edge loop writing the epsilon transition whatever write_action returns
CompileEdgeAlwaysEpsilon(act, d, has_ast_builder) ==
    LET r == write_action(act, <<>>, collect_offsets(act, has_ast_builder),
                          has_ast_builder)
    IN  IF r.status # "raise"
        THEN [r EXCEPT !.ops = r.ops \o <<[sec |-> "op", op |-> "epsilon", d |-> d],
                                           Op("return Ok(false)")>>]
        ELSE r

\* actions, the body of "for act, d in state.edges()": the code of one edge
compile_edge(act, d, has_ast_builder) ==
    LET r == write_action(act, <<>>, collect_offsets(act, has_ast_builder),
                          has_ast_builder)
    IN  IF r.status = "fallthrough"
        THEN [r EXCEPT !.ops = r.ops \o <<[sec |-> "op", op |-> "epsilon", d |-> d],
                                           Op("return Ok(false)")>>]
        ELSE r

-----------------------------------------------------------------------------
(* The parse tables the writer is run on.                                  *)

MaxTerms == 2     \* terminals listed by a parse table
MaxNts == 2       \* nonterminals listed by a parse table
MaxShift == 2     \* shift states of a parse table
MaxEdges == 2     \* edges of an action state

In == <<"I", "n">>
NtA == Nt(Str(<<"A">>), <<>>)
T_get == Str(<<"g", "e", "t">>)
T_comma == Str(<<",">>)

TermPalette == {T_get, Str(<<"G", "e", "t">>), End, Str(<<Tab>>)}
NtPalette ==
    {NtA, Nt(Str(<<"A">>), <<<<In, TRUE>>>>), Nt(Str(<<"A">>), <<<<In, FALSE>>>>),
     Nt(Str(<<"A", "I", "n">>), <<>>)}

\* the symbols a shift state may have a transition on; the last one is
\* listed by no parse table of the model
ShiftSymbols == {T_get, NtA, Str(<<"x">>)}
ShiftStatePalette ==
    { [trans |-> [s \in S |-> Goto(1)], error |-> e] :
          S \in SUBSET ShiftSymbols,
          e \in {None, ErrorEdge(ErrorSymbol(<<"a", "s", "i">>), Goto(0))} }
      \cup { [trans |-> [s \in {T_get} |-> IfSameLine(Goto(1), None)],
              error |-> None] }

\* the actions of the edges
EdgeActions ==
    { SeqOf(<<FunCall("f", <<Offset(0), Offset(1)>>, ValueName, 1),
              Reduce(NtA, 2, 0)>>),
      SeqOf(<<FunCall("id", <<Offset(0)>>, ValueName, 1), Reduce(NtA, 2, 1)>>),
      SeqOf(<<FunCall("id", <<Offset(0)>>, <<"x">>, 1),
              FunCall("may_fail", <<Str(<<"x">>), Some(Offset(1)), None>>,
                      ValueName, 1),
              Reduce(NtA, 2, 2)>>),
      SeqOf(<<CheckNotOnNewLine(1), FunCall("f", <<>>, <<"x">>, 0),
              Reduce(NtA, 1, 0)>>),
      SeqOf(<<FunCall("accept", <<>>, ValueName, 0), Reduce(NtA, 2, 0)>>),
      SeqOf(<<FunCall("accept", <<>>, ValueName, 0), PushFlag>>),
      SeqOf(<<FunCall("f", <<Offset(0)>>, <<"x">>, 1), PopFlag, Reduce(NtA, 1, 0)>>),
      SeqOf(<<CheckNotOnNewLine(0), SeqOf(<<FilterFlag>>)>>),
      SeqOf(<<FunCall("id", <<>>, <<"x">>, 0), PopFlag>>),
      SeqOf(<<CheckNotOnNewLine(0)>>),
      SeqOf(<<FunCall("f", <<>>, <<"x">>, 0),
              FunCall("g", <<Str(<<"x">>), Offset(0)>>, ValueName, 1),
              Reduce(NtA, 1, 0)>>),
      FunCall("g", <<Str(<<"x">>)>>, ValueName, 0),
      SeqOf(<<Reduce(NtA, 0, 0), CheckNotOnNewLine(0)>>),
      Reduce(NtA, 0, 0),
      Lookahead, PushFlag,
      [kind |-> "Action"] }

DefaultTerms == <<T_get, T_comma>>
DefaultNts == <<NtA>>
TwoNts == <<NtA, Nt(Str(<<"A", "I", "n">>), <<>>)>>
DefaultShift == <<[trans |-> [s \in {T_get} |-> Goto(0)], error |-> None]>>
DefaultEdges == <<Reduce(NtA, 0, 0)>>
NamedGoals == << <<Nt(InitNt(NtA), <<>>), 0>> >>

\* the table of the given lists, shift states and edge actions (one action
\* state; its edges lead to the states of the table in turn)
Table(terms, nts, shifts, acts) ==
    ParseTable(terms, nts,
               [i \in 1..Len(shifts) |->
                   ShiftState(i - 1, shifts[i].trans, shifts[i].error)]
               \o <<ActionState(Len(shifts),
                                [j \in 1..Len(acts) |->
                                    <<acts[j], (j - 1) % (Len(shifts) + 1)>>])>>,
               Len(shifts), NamedGoals)

ParseTables ==
    { Table(terms, nts, DefaultShift, DefaultEdges) :
          terms \in NonEmptySeqsUpTo(TermPalette, MaxTerms),
          nts \in {DefaultNts, TwoNts} }
    \cup { Table(DefaultTerms, nts, DefaultShift, DefaultEdges) :
               nts \in NonEmptySeqsUpTo(NtPalette, MaxNts) }
    \cup { Table(DefaultTerms, DefaultNts, shifts, DefaultEdges) :
               shifts \in NonEmptySeqsUpTo(ShiftStatePalette, MaxShift) }
    \cup { Table(DefaultTerms, DefaultNts, DefaultShift, acts) :
               acts \in SeqsUpTo(EdgeActions, MaxEdges) }

-----------------------------------------------------------------------------
(* RustParserWriter(out, pt, ...).emit(), method by method.                *)

parserVars == <<nt_defs, idx, nonterminals, variable_terminals, terminal_set,
                written>>
writerVars == <<parse_table, self_terminals, self_nonterminals>>

shift_count == count_shift_states(parse_table)
action_count == count_action_states(parse_table)

InitEmit ==
    /\ call = NoCall /\ ret = None /\ result = None
    /\ nt_defs = <<>> /\ idx = 0 /\ nonterminals = <<>>
    /\ variable_terminals = {} /\ terminal_set = {} /\ written = {}
    /\ \E pt \in ParseTables :
          /\ parse_table = pt
          /\ self_terminals = init_terminals(pt)
          /\ self_nonterminals = init_nonterminals(pt)
    /\ out = <<>> /\ state_i = 0 /\ edge_i = 0
    /\ pc = "header"

Header ==
    /\ pc = "header"
    /\ out' = Append(out, [sec |-> "header"])
    /\ pc' = "terms_id"
    /\ UNCHANGED <<call, ret, result, state_i, edge_i>>
    /\ UNCHANGED <<parserVars, writerVars>>

TermsId ==
    /\ pc = "terms_id"
    /\ LET r == terms_id(self_terminals, self_nonterminals)
       IN  /\ out' = out \o r.items
           /\ IF r.raised = None
              THEN pc' = "shift" /\ UNCHANGED result
              ELSE pc' = "error" /\ result' = r.raised
    /\ UNCHANGED <<call, ret, state_i, edge_i>>
    /\ UNCHANGED <<parserVars, writerVars>>

ShiftBegin ==
    /\ pc = "shift"
    /\ out' = Append(out, [sec |-> "SHIFT",
                           size |-> shift_count * (Len(self_terminals)
                                                     + Len(self_nonterminals))])
    /\ state_i' = 0
    /\ pc' = "shift_rows"
    /\ UNCHANGED <<call, ret, result, edge_i>>
    /\ UNCHANGED <<parserVars, writerVars>>

\* for i, state in enumerate(self.states[:self.shift_count]): one iteration
ShiftRow ==
    /\ pc = "shift_rows"
    /\ state_i < shift_count
    /\ LET state == parse_table.states[state_i + 1]
           r == shift_row(state, self_terminals, self_nonterminals)
       IN  /\ out' = Append(out, r.row)
           /\ IF r.encoded
              THEN /\ state_i' = state_i + 1
                   /\ UNCHANGED <<pc, result>>
              ELSE /\ pc' = "error"
                   /\ result' = [kind |-> "raise", exception |-> "AssertionError",
                                 error |-> EdgesNotEncoded, state |-> state.index]
                   /\ UNCHANGED state_i
    /\ UNCHANGED <<call, ret, edge_i>>
    /\ UNCHANGED <<parserVars, writerVars>>

ShiftEnd ==
    /\ pc = "shift_rows"
    /\ state_i = shift_count
    /\ out' = Append(out, [sec |-> "SHIFT_end"])
    /\ pc' = "error_codes"
    /\ UNCHANGED <<call, ret, result, state_i, edge_i>>
    /\ UNCHANGED <<parserVars, writerVars>>

ErrorCodes ==
    /\ pc = "error_codes"
    /\ out' = out \o error_codes(parse_table.states, shift_count)
    /\ pc' = "check_camel_case"
    /\ UNCHANGED <<call, ret, result, state_i, edge_i>>
    /\ UNCHANGED <<parserVars, writerVars>>

CheckCamelCase ==
    /\ pc = "check_camel_case"
    /\ LET r == check_camel_case(self_nonterminals)
       IN  IF r = None
           THEN pc' = "parser_trait" /\ UNCHANGED result
           ELSE pc' = "error" /\ result' = r
    /\ UNCHANGED <<call, ret, out, state_i, edge_i>>
    /\ UNCHANGED <<parserVars, writerVars>>

ParserTrait ==
    /\ pc = "parser_trait"
    /\ out' = Append(out, [sec |-> "ParserTrait"])
    /\ pc' = "actions"
    /\ UNCHANGED <<call, ret, result, state_i, edge_i>>
    /\ UNCHANGED <<parserVars, writerVars>>

\* actions(): the head of the semantic procedure, then of the structural one
ActionsBegin ==
    /\ pc \in {"actions", "noop_actions"}
    /\ out' = Append(out, [sec |-> "fn", name |-> pc])
    /\ state_i' = 0
    /\ edge_i' = 0
    /\ pc' = IF pc = "actions" THEN "actions_states" ELSE "noop_actions_states"
    /\ UNCHANGED <<call, ret, result>>
    /\ UNCHANGED <<parserVars, writerVars>>

has_ast_builder == pc = "actions_states"
ActionStateAt(i) == parse_table.states[shift_count + i + 1]

\* for act, d in state.edges(): one iteration
CompileEdge ==
    /\ pc \in {"actions_states", "noop_actions_states"}
    /\ state_i < action_count
    /\ edge_i < Len(ActionStateAt(state_i).edges)
    /\ LET state == ActionStateAt(state_i)
           act == state.edges[edge_i + 1][1]
           d == state.edges[edge_i + 1][2]
           r == compile_edge(act, d, has_ast_builder)
       IN  /\ call' = [fn |-> "write_action", act |-> act, d |-> d,
                       has_ast_builder |-> has_ast_builder, state |-> state.index]
           /\ ret' = r
           /\ out' = out \o (IF edge_i = 0
                             THEN <<[sec |-> "state", index |-> state.index]>>
                             ELSE <<>>) \o r.ops
           /\ IF r.status = "raise"
              THEN /\ pc' = "error"
                   /\ result' = [Raise(r.error) EXCEPT
                                     !.exception = IF r.error = "AssertionError"
                                                   THEN "AssertionError"
                                                   ELSE "ValueError"]
                   /\ UNCHANGED edge_i
              ELSE /\ edge_i' = edge_i + 1
                   /\ UNCHANGED <<pc, result>>
    /\ UNCHANGED state_i
    /\ UNCHANGED <<parserVars, writerVars>>

\* the edges of the state are compiled: the match arm is closed
EndState ==
    /\ pc \in {"actions_states", "noop_actions_states"}
    /\ state_i < action_count
    /\ edge_i = Len(ActionStateAt(state_i).edges)
    /\ out' = out \o (IF edge_i = 0
                      THEN <<[sec |-> "state", index |-> ActionStateAt(state_i).index]>>
                      ELSE <<>>) \o <<[sec |-> "state_end"]>>
    /\ state_i' = state_i + 1
    /\ edge_i' = 0
    /\ UNCHANGED <<call, ret, pc, result>>
    /\ UNCHANGED <<parserVars, writerVars>>

ActionsEnd ==
    /\ pc \in {"actions_states", "noop_actions_states"}
    /\ state_i = action_count
    /\ out' = Append(out, [sec |-> "fn_end"])
    /\ pc' = IF pc = "actions_states" THEN "noop_actions" ELSE "reduce"
    /\ UNCHANGED <<call, ret, result, state_i, edge_i>>
    /\ UNCHANGED <<parserVars, writerVars>>

\* reduce() and reduce_simulator() return at once when there is a parse table
EmitReduce ==
    /\ pc = "reduce"
    /\ pc' = "reduce_simulator"
    /\ UNCHANGED <<call, ret, result, out, state_i, edge_i>>
    /\ UNCHANGED <<parserVars, writerVars>>

EmitReduceSimulator ==
    /\ pc = "reduce_simulator"
    /\ pc' = "entry"
    /\ UNCHANGED <<call, ret, result, out, state_i, edge_i>>
    /\ UNCHANGED <<parserVars, writerVars>>

Entry ==
    /\ pc = "entry"
    /\ out' = out \o entry(parse_table, self_terminals, self_nonterminals)
    /\ pc' = "done"
    /\ UNCHANGED <<call, ret, result, state_i, edge_i>>
    /\ UNCHANGED <<parserVars, writerVars>>

NextEmit ==
    \/ Header
    \/ TermsId
    \/ ShiftBegin
    \/ ShiftRow
    \/ ShiftEnd
    \/ ErrorCodes
    \/ CheckCamelCase
    \/ ParserTrait
    \/ ActionsBegin
    \/ CompileEdge
    \/ EndState
    \/ ActionsEnd
    \/ EmitReduce
    \/ EmitReduceSimulator
    \/ Entry

SpecEmit == InitEmit /\ [][NextEmit]_vars

-----------------------------------------------------------------------------
(* Properties of the builder's callbacks (checked under SpecBuilder).      *)

\* the decimal numerals, written out
Numerals == << <<"0">>, <<"1">>, <<"2">>, <<"3">>, <<"4">>, <<"5">>, <<"6">>,
               <<"7">>, <<"8">>, <<"9">>, <<"1", "0">>, <<"1", "1">>,
               <<"1", "2">>, <<"1", "3">> >>

IsNtDefCall == call.fn \in {"nt_def", "nt_def_one_of"}
CalledName == IF call.lhs.kind = "tuple" THEN call.lhs.name ELSE call.lhs.text
CalledAlternatives ==
    IF call.fn = "nt_def" THEN Len(call.rhs_lines) ELSE Len(call.terminals)
BuiltProduction(j) ==
    IF ret.rhs.body[j].kind = "ConditionalRhs" THEN ret.rhs.body[j].rhs
    ELSE ret.rhs.body[j]
ExpectedMethodName(j) ==
    IF CalledAlternatives = 1 THEN CalledName
    ELSE CalledName \o <<" ">> \o Numerals[j]

\* C1: a definition built by make_nt_def has one production per alternative;
\* a sole production's method is named by the nonterminal's (base) name, and
\* with two or more alternatives the method of alternative i is the name, a
\* space and the decimal 0-based index i; an ifdef-guarded alternative keeps
\* its place and its index.
C1_MethodNames ==
    IsNtDefCall =>
        /\ ret.name = CalledName
        /\ Len(ret.rhs.body) = CalledAlternatives
        /\ \A j \in 1..CalledAlternatives :
              /\ BuiltProduction(j).kind = "Production"
              /\ BuiltProduction(j).action.method = ExpectedMethodName(j)
              /\ call.fn = "nt_def" =>
                    ((call.rhs_lines[j].kind = "ConditionalRhs")
                        <=> (ret.rhs.body[j].kind = "ConditionalRhs"))

\* a parameterized definition of several alternatives whose second one is
\* ifdef-guarded and is named "A 1"
C1_Witness ==
    /\ call.fn = "nt_def"
    /\ call.lhs.kind = "tuple"
    /\ Len(call.rhs_lines) = 3
    /\ ret.rhs.kind = "Parameterized"
    /\ ret.rhs.body[2].kind = "ConditionalRhs"
    /\ ret.rhs.body[2].rhs.action.method = <<"A", " ", "1">>
    /\ ret.rhs.body[3].action.method = <<"A", " ", "2">>

\* the number of concrete elements of a right-hand side, as the claim counts
\* them: lookahead rules, no-LineTerminator markers and prose add nothing
ConcreteElementsClaimed(rhs) ==
    IF rhs.kind = "str" THEN 0
    ELSE Cardinality({j \in 1..Len(rhs.body) : is_concrete_element(rhs.body[j])})

\* C2: every production carries a CallMethod reducer whose arguments are
\* exactly (0, ..., k-1), k the number of concrete elements of its right-hand
\* side; lookahead rules, no-LineTerminator markers and prose add no argument.
C2_ArgsAreConcretePositions ==
    IsNtDefCall =>
        \A j \in 1..Len(ret.rhs.body) :
            /\ BuiltProduction(j).action.kind = "CallMethod"
            /\ BuiltProduction(j).action.args
                   = [k \in 1..ConcreteElementsClaimed(BuiltProduction(j).body) |-> k - 1]

\* C3: a "one of" definition of A listing t_0..t_{n-1} yields exactly n
\* productions of A, the i-th with right-hand side [t_i] and reducer
\* arguments (0), named as in any other definition.
C3_OneOfExpansion ==
    call.fn = "nt_def_one_of" =>
        /\ ret.name = CalledName
        /\ ret.eq = call.eq
        /\ Len(ret.rhs.body) = Len(call.terminals)
        /\ \A j \in 1..Len(call.terminals) :
              /\ ret.rhs.body[j].kind = "Production"
              /\ ret.rhs.body[j].nt = CalledName
              /\ ret.rhs.body[j].body.kind = "list"
              /\ ret.rhs.body[j].body.body = <<call.terminals[j]>>
              /\ ret.rhs.body[j].action.args = <<0>>
              /\ ret.rhs.body[j].action.method = ExpectedMethodName(j)

\* a "one of" list of two different terminals, expanded in list order
C3_Witness ==
    /\ call.fn = "nt_def_one_of"
    /\ call.lhs = Str(<<"A">>)
    /\ call.terminals = <<Str(<<"x">>), Str(<<"y">>)>>
    /\ ret.rhs.body[1].body.body = <<Str(<<"x">>)>>
    /\ ret.rhs.body[2].body.body = <<Str(<<"y">>)>>
    /\ ret.rhs.body[1].action.method = <<"A", " ", "0">>
    /\ ret.rhs.body[2].action.method = <<"A", " ", "1">>

HasDuplicateFlag(args) ==
    \E j, k \in 1..Len(args) : j < k /\ args[j][1] = args[k][1]

\* C8: nonterminal_apply raises the duplicate-flag error exactly when a flag
\* name occurs more than once among its bindings; otherwise it returns an
\* Apply node holding the bindings as given, none of them twice.
C8_ApplyFlagsUnique ==
    call.fn = "nonterminal_apply" =>
        /\ (ret.kind = "raise") <=> HasDuplicateFlag(call.args)
        /\ ret.kind = "raise" => ret.error = "parameter passed multiple times"
        /\ ret.kind # "raise" =>
              /\ ret.kind = "Apply"
              /\ ret.nt = call.name
              /\ ret.args = call.args
              /\ ~HasDuplicateFlag(ret.args)

\* three bindings, the first and the last of the same flag: rejected
C8_Witness ==
    /\ call.fn = "nonterminal_apply"
    /\ Len(call.args) = 3
    /\ call.args[1][1] = call.args[3][1]
    /\ call.args[1][1] # call.args[2][1]
    /\ call.args[1][2].kind # call.args[3][2].kind
    /\ ret.kind = "raise"

\* C9: la_not_in_set returns the negative rule over the exclusions' only
\* tokens when every exclusion has exactly one token and raises otherwise;
\* la_eq and la_ne return the positive and the negative rule over the one
\* terminal given.
C9_LookaheadRules ==
    /\ call.fn = "la_not_in_set" =>
          LET ex == call.lookahead_exclusions
          IN  IF \E j \in 1..Len(ex) : Len(ex[j]) # 1
              THEN /\ ret.kind = "raise"
                   /\ ret.error = "unsupported: lookahead > 1 token"
              ELSE /\ ret.kind = "LookaheadRule"
                   /\ ret.positive = FALSE
                   /\ \A t \in ret.set : \E j \in 1..Len(ex) : ex[j] = <<t>>
                   /\ \A j \in 1..Len(ex) : Head(ex[j]) \in ret.set
    /\ call.fn = "la_eq" =>
          ret.kind = "LookaheadRule" /\ ret.set = {call.t} /\ ret.positive = TRUE
    /\ call.fn = "la_ne" =>
          ret.kind = "LookaheadRule" /\ ret.set = {call.t} /\ ret.positive = FALSE

\* a one-token exclusion followed by a two-token exclusion: rejected
C9_Witness ==
    /\ call.fn = "la_not_in_set"
    /\ Len(call.lookahead_exclusions) = 2
    /\ Len(call.lookahead_exclusions[1]) = 1
    /\ Len(call.lookahead_exclusions[2]) = 2
    /\ ret.kind = "raise"

-----------------------------------------------------------------------------
(* Properties of finish_grammar (checked under Spec).                      *)

IsPlain(d) == d.rhs.kind = "list"            \* a non-parameterized definition
IsNormal(d) == d.eq = <<":">>
IsLexical(d) == d.eq = <<":", ":">>
IfdefAlternatives(d) ==
    {j \in 1..Len(d.rhs.body) : d.rhs.body[j].kind = "ConditionalRhs"}
\* the alternatives holding a string that starts with a backtick and is no
\* well-quoted literal
MalformedAlternatives(d) ==
    {j \in 1..Len(d.rhs.body) :
        /\ d.rhs.body[j].kind = "Production"
        /\ \E i \in 1..Len(d.rhs.body[j].body.body) :
              LET e == d.rhs.body[j].body.body[i]
              IN  /\ e.kind = "str"
                  /\ Len(e.text) >= 1
                  /\ Head(e.text) = Backtick
                  /\ (Len(e.text) < 3 \/ e.text[Len(e.text)] # Backtick)}
CleanAlternatives(d) == IfdefAlternatives(d) = {} /\ MalformedAlternatives(d) = {}
\* the loop raised while processing the k-th definition
RaisedAt(k, error) == pc = "error" /\ idx = k /\ result.error = error
LoopErrors == {UnrecognizedSymbol, IfdefContext, MultipleDefinitions}
RaisedInLoopAt(k) == pc = "error" /\ idx = k /\ result.error \in LoopErrors

\* C4: whenever finish_grammar returns a Grammar, no terminal written in an
\* alternative has the text of one of the Grammar's nonterminal names (a
\* collision raises instead).
C4_TerminalsDisjoint ==
    pc = "done" => \A t \in written : t \notin DOMAIN result.nonterminals

\* C5, as stated: a name defined twice by non-parameterized definitions makes
\* finish_grammar raise when it processes the second definition: the
\* duplicate-definition error, if nothing else is wrong with that definition.
C5_Original ==
    \A j, k \in 1..idx :
        (j < k /\ IsPlain(nt_defs[j]) /\ IsPlain(nt_defs[k])
               /\ nt_defs[j].name = nt_defs[k].name)
            => /\ RaisedInLoopAt(k)
               /\ CleanAlternatives(nt_defs[k]) => RaisedAt(k, MultipleDefinitions)

\* C5, amended: a name defined twice by non-parameterized definitions that
\* both carry the marker ":" makes finish_grammar raise when it processes the
\* second definition: the duplicate-definition error, unless one of that
\* definition's own alternatives is rejected first.  Until a parameterized
\* definition of the name follows, the dict holds the first definition.
C5_DuplicateNormalDefinition ==
    /\ \A j, k \in 1..idx :
          (j < k /\ IsPlain(nt_defs[j]) /\ IsPlain(nt_defs[k])
                 /\ IsNormal(nt_defs[j]) /\ IsNormal(nt_defs[k])
                 /\ nt_defs[j].name = nt_defs[k].name)
              => /\ RaisedInLoopAt(k)
                 /\ CleanAlternatives(nt_defs[k]) => RaisedAt(k, MultipleDefinitions)
    /\ \A j \in 1..idx :
          (/\ IsPlain(nt_defs[j]) /\ IsNormal(nt_defs[j])
           /\ ~RaisedInLoopAt(j)
           /\ \A k \in (j + 1)..idx :
                 nt_defs[k].name = nt_defs[j].name
                     => (IsPlain(nt_defs[k]) \/ RaisedInLoopAt(k)))
              => /\ nt_defs[j].name \in DOMAIN nonterminals
                 /\ nonterminals[nt_defs[j].name] = nt_defs[j].rhs

\* two ":" definitions of A without parameters; the second one is refused
C5_Witness ==
    /\ idx = 2
    /\ IsPlain(nt_defs[1]) /\ IsPlain(nt_defs[2])
    /\ IsNormal(nt_defs[1]) /\ IsNormal(nt_defs[2])
    /\ nt_defs[1].name = <<"A">> /\ nt_defs[2].name = <<"A">>
    /\ CleanAlternatives(nt_defs[2])
    /\ RaisedAt(2, MultipleDefinitions)
    /\ nonterminals[<<"A">>] = nt_defs[1].rhs

\* C6, as stated: an ifdef-guarded alternative is accepted when the owning
\* nonterminal is non-parameterized and rejected with the conditional-context
\* error when it is parameterized.
C6_Original ==
    \A k \in 1..idx :
        IfdefAlternatives(nt_defs[k]) # {}
            => IF IsPlain(nt_defs[k]) THEN ~RaisedAt(k, IfdefContext)
               ELSE RaisedAt(k, IfdefContext)

\* C6, amended: an ifdef-guarded alternative is rejected with the
\* conditional-context error when the owning definition is non-parameterized
\* (unless an earlier alternative of that definition holds a malformed
\* literal, which raises first), and accepted when it is parameterized: the
\* definition is registered with its ConditionalRhs.
C6_IfdefOnlyUnderParameterized ==
    \A k \in 1..idx :
        IfdefAlternatives(nt_defs[k]) # {}
            => IF IsPlain(nt_defs[k])
               THEN /\ RaisedInLoopAt(k)
                    /\ result.error # MultipleDefinitions
                    /\ (\A m \in MalformedAlternatives(nt_defs[k]) :
                           \E j \in IfdefAlternatives(nt_defs[k]) : j < m)
                          => RaisedAt(k, IfdefContext)
               ELSE /\ ~RaisedInLoopAt(k)
                    /\ nt_defs[k].name \in DOMAIN nonterminals
                    /\ (\A m \in (k + 1)..idx :
                           nt_defs[m].name = nt_defs[k].name => RaisedInLoopAt(m))
                          => nonterminals[nt_defs[k].name] = nt_defs[k].rhs

\* a Grammar is returned whose parameterized nonterminal A has an
\* ifdef-guarded alternative
C6_Witness ==
    /\ pc = "done"
    /\ idx = 1
    /\ ~IsPlain(nt_defs[1])
    /\ IfdefAlternatives(nt_defs[1]) = {1}
    /\ result.nonterminals[<<"A">>].kind = "Parameterized"
    /\ result.nonterminals[<<"A">>].body[1].kind = "ConditionalRhs"

-----------------------------------------------------------------------------
(* Properties of terminal_name (checked under SpecNames).                  *)

\* C10: terminal_name returns, for every terminal value (end of input, error
\* symbol, catalogued punctuation, alphabetic word, control character,
\* uncatalogued punctuation), a non-empty name and never raises; a catalogued
\* literal maps to its table entry (">>>=" to UnsignedRightShiftAssign, ","
\* to Comma) and the lowercase word "get" to "Get".
C10_TerminalNameTotal ==
    call.fn = "terminal_name" =>
        /\ ret.kind = "str"
        /\ Len(ret.text) >= 1
        /\ (call.value.kind = "str" /\ call.value.text \in DOMAIN TERMINAL_NAMES)
              => ret.text = TERMINAL_NAMES[call.value.text]
        /\ call.value = Str(<<">", ">", ">", "=">>)
              => ret.text = <<"U", "n", "s", "i", "g", "n", "e", "d", "R", "i",
                              "g", "h", "t", "S", "h", "i", "f", "t", "A", "s",
                              "s", "i", "g", "n">>
        /\ call.value = Str(<<",">>) => ret.text = <<"C", "o", "m", "m", "a">>
        /\ call.value = Str(<<"g", "e", "t">>) => ret.text = <<"G", "e", "t">>

-----------------------------------------------------------------------------
(* Properties of RustParserWriter.emit (checked under SpecEmit).           *)

\* the enumerants written so far to TerminalId and to NonterminalId
Enumerants(sec) == SelectSeq(out, LAMBDA item : item.sec = sec)
EmitCompleted == pc = "done"

\* C11: whenever emit() completes, no two distinct terminals of
\* self.terminals share an emitted identifier and no two distinct
\* nonterminals of self.nonterminals share one, so that every enumerant name
\* of TerminalId and of NonterminalId is unique.
C11_IdentifiersUnique ==
    EmitCompleted =>
        \A sec \in {"TerminalId", "NonterminalId"} :
            \A i, j \in 1..Len(Enumerants(sec)) :
                i # j => Enumerants(sec)[i].name # Enumerants(sec)[j].name

\* xs without its repeated elements, in the order of their first occurrence
FirstOccurrences(xs) ==
    LET firsts == {i \in 1..Len(xs) : \A k \in 1..(i - 1) : xs[k] # xs[i]}
        nth[n \in 1..Cardinality(firsts)] ==
            CHOOSE i \in firsts : Cardinality({k \in firsts : k < i}) = n - 1
    IN  [n \in 1..Cardinality(firsts) |-> xs[nth[n]]]

\* the transition of a state on a symbol, the error-recovery edge standing
\* for the transition on ErrorToken
Transition(state, symbol) ==
    IF symbol \in DOMAIN state.trans THEN state.trans[symbol]
    ELSE IF symbol = ErrorTokenName /\ state.error # None THEN state.error.dest
    ELSE ERROR

TermsIdCompleted == \E k \in 1..Len(out) : out[k].sec = "Term"
\* the symbol of each enumerant, terminals first
EmittedSymbols ==
    [i \in 1..Len(Enumerants("TerminalId")) |->
        [id |-> Enumerants("TerminalId")[i].id,
         symbol |-> Enumerants("TerminalId")[i].term]]
    \o [i \in 1..Len(Enumerants("NonterminalId")) |->
           [id |-> Enumerants("NonterminalId")[i].id,
            symbol |-> Enumerants("NonterminalId")[i].nt]]

\* C12: the emitted ids form one contiguous range 0..T+N-1, none used twice:
\* the terminals get 0..T-1 in first-occurrence order of the parse table's
\* terminal list with ErrorToken appended once as the last terminal, the
\* nonterminals get T..T+N-1 in first-occurrence order of the parse table's
\* nonterminal list; and in every row of the shift table the cell at column
\* c is the transition on the symbol whose emitted id is c.
C12_ContiguousIds ==
    TermsIdCompleted =>
        /\ [i \in 1..Len(Enumerants("TerminalId")) |-> Enumerants("TerminalId")[i].term]
               = FirstOccurrences(parse_table.terminals) \o <<ErrorTokenName>>
        /\ [i \in 1..Len(Enumerants("NonterminalId")) |-> Enumerants("NonterminalId")[i].nt]
               = FirstOccurrences(parse_table.nonterminals)
        /\ \A i \in 1..Len(EmittedSymbols) : EmittedSymbols[i].id = i - 1
        /\ \A k \in 1..Len(out) :
              out[k].sec = "row" =>
                  /\ Len(out[k].cells) = Len(EmittedSymbols)
                  /\ \A i \in 1..Len(EmittedSymbols) :
                        out[k].cells[EmittedSymbols[i].id + 1]
                            = Transition(parse_table.states[out[k].state + 1],
                                         EmittedSymbols[i].symbol)

\* emit() has completed for a table that lists a terminal twice and two
\* nonterminals, and whose shift state has a transition
C12_Witness ==
    /\ EmitCompleted
    /\ Len(parse_table.terminals) = 2
    /\ Len(Enumerants("TerminalId")) = 2
    /\ Enumerants("TerminalId")[2].id = 1
    /\ Enumerants("TerminalId")[2].term = ErrorTokenName
    /\ Len(Enumerants("NonterminalId")) = 2
    /\ Enumerants("NonterminalId")[2].id = 3
    /\ \E k \in 1..Len(out) :
          /\ out[k].sec = "row"
          /\ out[k].cells[1] # ERROR

\* the rows of the shift table written so far
Rows == Enumerants("row")
\* the number of cells of the row of a shift state that are not ERROR, the
\* error-recovery fallback cell included
EncodedCells(state) ==
    Cardinality({c \in 1..Len(self_terminals \o self_nonterminals) :
                    Transition(state, (self_terminals \o self_nonterminals)[c]) # ERROR})
EncodingMismatch(state) == EncodedCells(state) # shifted_edges(state)
ShiftAborted ==
    /\ pc = "error"
    /\ result.exception = "AssertionError"
    /\ result.error = EdgesNotEncoded

\* C13: if the number of non-ERROR cells of some shift state's row differs
\* from the state's own count of shifted edges, shift() aborts at that state
\* with the edges-not-encoded error, whose report names the state's index,
\* and writes no row of a later state; if the counts agree for every shift
\* state, shift() raises nothing.
C13_EncodingMismatchAborts ==
    /\ \A k \in 1..Len(Rows) :
          EncodingMismatch(parse_table.states[Rows[k].state + 1]) =>
              /\ ShiftAborted
              /\ result.state = Rows[k].state
              /\ k = Len(Rows)
              /\ out[Len(out)] = Rows[k]
    /\ ShiftAborted =>
          /\ Rows # <<>>
          /\ EncodingMismatch(parse_table.states[result.state + 1])
          /\ Rows[Len(Rows)].state = result.state
    /\ \A k \in 1..Len(Rows) : Rows[k].state = k - 1

\* shift() has aborted at the first of two shift states: the state has an
\* edge on a symbol the table does not list, and no row follows its own
C13_Witness ==
    /\ ShiftAborted
    /\ shift_count = 2
    /\ result.state = 0
    /\ Len(Rows) = 1
    /\ out[Len(out)].sec = "row"
    /\ ~EncodingMismatch(parse_table.states[2])

CollisionRaised == pc = "error" /\ result.error = CamelCaseCollision

\* C14: if two distinct nonterminals of the parse table yield the same
\* identifier, emit() aborts with the identifier-collision error before
\* anything has been written: when the error is raised the output is empty.
C14_CollisionBeforeOutput ==
    CollisionRaised => out = <<>>

\* the edge compiled last: its action, destination, mode and outcome
IsCompiledEdge == call.fn = "write_action"

\* the sub-actions of an action in the order write_action visits them, the
\* sub-actions of a nested Seq in place of the Seq
RECURSIVE Leaves(_)
FlattenLeaves(actions) ==
    LET cat[j \in 0..Len(actions)] ==
            IF j = 0 THEN <<>> ELSE cat[j - 1] \o Leaves(actions[j])
    IN  cat[Len(actions)]
Leaves(act) == IF act.kind = "Seq" THEN FlattenLeaves(act.actions) ELSE <<act>>

UnsupportedKinds == {"Lookahead", "FilterFlag", "PushFlag", "PopFlag"}
ErrorNaming(kind) ==
    IF kind = "Lookahead" THEN "Unexpected Lookahead action"
    ELSE IF kind = "FilterFlag" THEN "NYI: FilterFlag action"
    ELSE IF kind = "PushFlag" THEN "NYI: PushFlag action"
    ELSE "NYI: PopFlag action"
ContainsUnsupported(act) ==
    \E j \in 1..Len(Leaves(act)) : Leaves(act)[j].kind \in UnsupportedKinds

\* C15 as stated: for every edge whose action is, or contains at any
\* position of a (possibly nested) Seq, a Lookahead, FilterFlag, PushFlag or
\* PopFlag action, actions() aborts with an error naming that kind; no such
\* action is skipped while the edge's code generation completes normally.
C15_Original ==
    (IsCompiledEdge /\ ContainsUnsupported(call.act)) =>
        /\ ret.status = "raise"
        /\ \E j \in 1..Len(Leaves(call.act)) :
              /\ Leaves(call.act)[j].kind \in UnsupportedKinds
              /\ ret.error = ErrorNaming(Leaves(call.act)[j].kind)

\* a sub-action write_action compiles without error and falls through
RECURSIVE ValidArg(_)
ValidArg(a) ==
    IF a.kind = "Some" THEN ValidArg(a.inner) ELSE a.kind \in {"int", "str", "None"}
Passable(a, mode) ==
    \/ a.kind = "CheckNotOnNewLine"
    \/ /\ a.kind = "FunCall"
       /\ a.method # "accept"
       /\ a.method = "id" => Len(a.args) = 1
       /\ (mode \/ a.method = "id") => \A j \in 1..Len(a.args) : ValidArg(a.args[j])
Stops(a) ==
    \/ a.kind = "Reduce"
    \/ a.kind = "FunCall" /\ a.method = "accept" /\ a.args = <<>>
\* the first sub-action, in the order of compilation, that does not fall
\* through (0 when all do)
FirstBlocking(act, mode) ==
    LET blocking == {j \in 1..Len(Leaves(act)) : ~Passable(Leaves(act)[j], mode)}
    IN  IF blocking = {} THEN 0
        ELSE CHOOSE j \in blocking : \A k \in blocking : j <= k

\* C15, amended: when the first sub-action of an edge's action that does not
\* fall through (nested Seqs flattened, in list order) is a Lookahead,
\* FilterFlag, PushFlag or PopFlag action, actions() aborts with a ValueError
\* naming that kind; when it is a Reduce or an accept call, compilation stops
\* there, any such action after it is skipped and the edge's code generation
\* completes normally.
C15_UnsupportedWhenReached ==
    (IsCompiledEdge /\ FirstBlocking(call.act, call.has_ast_builder) # 0) =>
        LET a == Leaves(call.act)[FirstBlocking(call.act, call.has_ast_builder)]
        IN  /\ a.kind \in UnsupportedKinds =>
                  /\ ret.status = "raise"
                  /\ ret.error = ErrorNaming(a.kind)
                  /\ pc = "error"
                  /\ result = Raise(ErrorNaming(a.kind))
            /\ Stops(a) => ret.status = "stop" /\ pc # "error"

\* an edge whose action holds a PushFlag after an accept call has been
\* compiled to the end
C15_Witness ==
    /\ IsCompiledEdge
    /\ ContainsUnsupported(call.act)
    /\ Stops(Leaves(call.act)[FirstBlocking(call.act, call.has_ast_builder)])
    /\ ret.status = "stop"
    /\ pc \in {"actions_states", "noop_actions_states"}

\* emit_special_cases has written the SPECIAL_CASES table (no method of
\* the writer calls it, nor render_action)
SpecialCasesWritten == \E k \in 1..Len(out) : out[k].sec = "SPECIAL_CASES"
\* a cell of the shift table holds the IfSameLine transition itself
RawSpecialCase(cell) == cell.kind = "IfSameLine"

\* C16: the emitted artifact contains the special-case predicate table, and
\* every IfSameLine transition of a shift state is written in the shift
\* table as the tagged sentinel of its predicate's slot, never as the
\* transition itself.
C16_SpecialCaseTable ==
    /\ EmitCompleted => SpecialCasesWritten
    /\ \A k \in 1..Len(Rows) :
          \A c \in 1..Len(Rows[k].cells) : ~RawSpecialCase(Rows[k].cells[c])

ShiftCompleted == \E k \in 1..Len(out) : out[k].sec = "SHIFT_end"
Symbols == self_terminals \o self_nonterminals
\* the size the SHIFT table is declared with
DeclaredSize == Enumerants("SHIFT")[1].size
CellCount == Sum([k \in 1..Len(Rows) |-> Len(Rows[k].cells)])

\* the transition of s on t is a choice between two destinations, not a
\* next-state index
ContextSensitive(s, t) == t \in DOMAIN s.trans /\ s.trans[t].kind = "IfSameLine"

LastCompiled == Leaves(call.act)[FirstBlocking(call.act, call.has_ast_builder)]
ReduceCompiled ==
    /\ IsCompiledEdge
    /\ FirstBlocking(call.act, call.has_ast_builder) # 0
    /\ LastCompiled.kind = "Reduce"
\* the operations written from the binding of the reduced term on, the
\* binding of the value left out
FromTerm(ops) ==
    LET p == CHOOSE p \in 1..Len(ops) : ops[p].op = "let_term"
        rest == SubSeq(ops, p + 1, Len(ops))
    IN  IF rest # <<>> /\ rest[1].op = "let_value" THEN Tail(rest) ELSE rest
HasEpsilon(ops) == \E p \in 1..Len(ops) : ops[p].op = "epsilon"

\* C18: for every Reduce(nt, replay) that write_action compiles, the emitted
\* operations are parser.replay(s1), ..., parser.replay(s_replay), then one
\* parser.replay of the pair of Nonterminal(nt) and the value, then the stop
\* result; write_action returns "no fallthrough", and no operation of a
\* later sub-action and no epsilon transition is emitted for the edge.
C18_ReduceReplays ==
    ReduceCompiled =>
        /\ Cardinality({p \in 1..Len(ret.ops) : ret.ops[p].op = "let_term"}) = 1
        /\ \E p \in 1..Len(ret.ops) :
              /\ ret.ops[p].op = "let_term"
              /\ ret.ops[p].nt = nonterminal_to_camel(LastCompiled.nt)
        /\ FromTerm(ret.ops)
               = [i \in 1..LastCompiled.replay |->
                     [sec |-> "op", op |-> "replay", arg |-> SlotName(i)]]
                 \o <<[sec |-> "op", op |-> "replay", arg |-> <<"TermValue">>],
                      [sec |-> "op", op |-> "Ok(false)"]>>
        /\ ret.status = "stop"
        /\ ~HasEpsilon(ret.ops)
        /\ pc # "error"

\* a Reduce that replays two slots has been compiled after other sub-actions
C18_Witness ==
    /\ ReduceCompiled
    /\ LastCompiled.replay = 2
    /\ Len(Leaves(call.act)) = 3
    /\ Len(FromTerm(ret.ops)) = 4
    /\ ret.status = "stop"

\* the edge compiled last has a Seq that updates the stack
SeqCompiled ==
    /\ IsCompiledEdge
    /\ call.act.kind = "Seq"
    /\ update_stack(call.act)
Depth == reduce_with(call.act).pop + reduce_with(call.act).replay
\* offset i is referenced by a sub-action of the edge's action in the mode
\* of the procedure being written
Referenced(i) ==
    \E j \in 1..Len(Leaves(call.act)) :
        LET a == Leaves(call.act)[j]
        IN  \/ a.kind = "Reduce" /\ i \in 1..a.replay
            \/ /\ a.kind = "FunCall"
               /\ call.has_ast_builder \/ a.method = "id"
               /\ i \in arg_offsets(a.args, a.offset)

\* the variables an emitted operation reads
RECURSIVE ExprReads(_)
ExprReads(e) ==
    IF e.kind = "var" THEN {e.name}
    ELSE IF e.kind = "Some" THEN ExprReads(e.inner)
    ELSE {}
OpReads(o) ==
    IF o.op = "replay" THEN (IF o.arg = <<"TermValue">> THEN {} ELSE {o.arg})
    ELSE IF o.op = "call" THEN UNION {ExprReads(o.args[j]) : j \in 1..Len(o.args)}
    ELSE IF o.op = "let" THEN ExprReads(o.value)
    ELSE {}
IsSlotName(n) ==
    /\ Len(n) >= 2
    /\ n[1] = "s"
    /\ \A k \in 2..Len(n) : IsDigitChar(n[k])

\* the statements a sub-action is compiled to, by kind (those of a Reduce
\* from its first one on are the matter of C18)
LeafOps(a, mode) ==
    IF a.kind = "CheckNotOnNewLine" THEN <<"check_not_on_new_line">>
    ELSE IF a.kind = "Reduce" THEN <<"let_term">>
    ELSE IF a.kind = "FunCall"
    THEN IF a.method = "id" THEN <<"let">>
         ELSE IF a.method = "accept" THEN <<"return Ok(true)">>
         ELSE IF mode THEN <<"call">>
         ELSE IF a.set_to = ValueName THEN <<"let value = ()">>
         ELSE <<>>
    ELSE <<>>
\* the statements of the sub-actions in list order, up to and including the
\* first one that does not fall through
ExpectedOps(act, mode) ==
    LET leaves == Leaves(act)
        last == IF FirstBlocking(act, mode) = 0 THEN Len(leaves)
                ELSE FirstBlocking(act, mode)
        cat[j \in 0..last] ==
            IF j = 0 THEN <<>> ELSE cat[j - 1] \o LeafOps(leaves[j], mode)
    IN  cat[last]
\* the kinds of the statements written, up to the first one of a Reduce
OpKinds(ops) ==
    LET terms == {p \in 1..Len(ops) : ops[p].op = "let_term"}
        last == IF terms = {} THEN Len(ops)
                ELSE CHOOSE p \in terms : \A q \in terms : p <= q
    IN  [p \in 1..last |-> ops[p].op]

\* C19: for a Seq that updates the stack with depth d = pop + replay,
\* write_action emits exactly d parser.pop() bindings, for slots 1..d in that
\* order, before any sub-action's code; slot i is bound to s<i> if and only
\* if offset i is referenced by some sub-action of the edge's action in the
\* current mode, and to _s<i> otherwise, so that every slot name the emitted
\* code reads was bound by one of these pops; the sub-actions are then
\* compiled in list order, stopping after the first one that signals stop.
C19_SeqPops ==
    SeqCompiled =>
        /\ Len(ret.ops) >= Depth
        /\ \A i \in 1..Depth :
              ret.ops[i] = [sec |-> "op", op |-> "pop", slot |-> i,
                            name |-> (IF Referenced(i) THEN <<"s">> ELSE <<"_", "s">>)
                                         \o FormatInt(i)]
        /\ \A p \in (Depth + 1)..Len(ret.ops) : ret.ops[p].op # "pop"
        /\ \A p \in 1..Len(ret.ops) :
              \A n \in OpReads(ret.ops[p]) :
                  IsSlotName(n) =>
                      \E i \in 1..Depth : ret.ops[i].name = n
        /\ OpKinds(SubSeq(ret.ops, Depth + 1, Len(ret.ops)))
               = ExpectedOps(call.act, call.has_ast_builder)

\* a Seq of depth 3 has been compiled in the structural procedure: slot 1
\* is read by its id call and its replay, slots 2 and 3 by nothing
C19_Witness ==
    /\ SeqCompiled
    /\ ~call.has_ast_builder
    /\ Depth = 3
    /\ ret.ops[1].name = <<"s", "1">>
    /\ ret.ops[2].name = <<"_", "s", "2">>
    /\ ret.ops[3].name = <<"_", "s", "3">>
    /\ ret.status = "stop"

\* the compilation of the last edge's action reached its end: every
\* sub-action fell through, none was a Reduce or an accept call
ReachedEnd ==
    /\ IsCompiledEdge
    /\ FirstBlocking(call.act, call.has_ast_builder) = 0
Epsilons(ops) == {p \in 1..Len(ops) : ops[p].op = "epsilon"}

\* C20: for every edge (action, d) of an action state, in the semantic and
\* in the structural procedure, parser.epsilon(d) is emitted, exactly once
\* and as the last operation of the edge's code (only the return of the
\* result follows), if and only if compiling the action reached its end
\* without compiling a Reduce or an accept call; otherwise no epsilon
\* transition is emitted for the edge.
C20_EpsilonOnFallthrough ==
    IsCompiledEdge =>
        IF ReachedEnd
        THEN /\ Epsilons(ret.ops) = {Len(ret.ops) - 1}
             /\ ret.ops[Len(ret.ops) - 1].d = call.d
             /\ ret.ops[Len(ret.ops)] = Op("return Ok(false)")
             /\ ret.status = "fallthrough"
        ELSE Epsilons(ret.ops) = {}

\* the second edge of a state has been compiled in the structural procedure
\* down to its epsilon transition to state 1, after other operations
C20_Witness ==
    /\ ReachedEnd
    /\ ~call.has_ast_builder
    /\ call.d = 1
    /\ Len(ret.ops) = 3
    /\ ret.ops[2] = [sec |-> "op", op |-> "epsilon", d |-> 1]
    /\ out[Len(out)] = Op("return Ok(false)")

\* the items written for a procedure ("actions" or "noop_actions"), from its
\* head to its end
ProcedureItems(name) ==
    LET heads == {k \in 1..Len(out) : out[k].sec = "fn" /\ out[k].name = name}
        head == CHOOSE k \in heads : TRUE
        ends == {k \in (head + 1)..Len(out) : out[k].sec = "fn_end"}
        end == CHOOSE k \in ends : \A e \in ends : k <= e
    IN  IF heads = {} \/ ends = {} THEN <<>> ELSE SubSeq(out, head + 1, end - 1)
BothProceduresWritten ==
    /\ \E k \in 1..Len(out) : out[k].sec = "fn" /\ out[k].name = "noop_actions"
    /\ pc \in {"reduce", "reduce_simulator", "entry", "done"}

\* the stack and control operations among the items of a procedure: the
\* states' arms, the pops (whatever the name they bind), the replays, the
\* line checks, the accept returns, the epsilon transitions and the results
StackAndControl(items) ==
    LET kept == SelectSeq(items, LAMBDA o :
                    \/ o.sec \in {"state", "state_end"}
                    \/ /\ o.sec = "op"
                       /\ o.op \in {"pop", "replay", "check_not_on_new_line",
                                    "return Ok(true)", "epsilon", "Ok(false)",
                                    "return Ok(false)"})
    IN  [k \in 1..Len(kept) |->
            IF kept[k].sec = "op" /\ kept[k].op = "pop"
            THEN [sec |-> "op", op |-> "pop", slot |-> kept[k].slot]
            ELSE kept[k]]

\* the statement at position p of an edge's code binds the variable n
Binds(o, n) ==
    \/ o.op = "pop" /\ o.name = n
    \/ o.op \in {"let", "call"} /\ o.name = n
    \/ o.op = "let value = ()" /\ n = ValueName
\* the variables the statement reads, those of a Reduce's statements included
StatementReads(o) ==
    IF o.op = "replay" /\ o.arg = <<"TermValue">> THEN {ValueName}
    ELSE IF o.op = "let_value" /\ o.value.of = "value" THEN {ValueName}
    ELSE OpReads(o)
\* every variable an edge's code reads is bound by an earlier statement of it
ReadsAreBound(ops) ==
    \A p \in 1..Len(ops) :
        \A n \in StatementReads(ops[p]) :
            \E q \in 1..(p - 1) : Binds(ops[q], n)

\* C21: for every edge of every action state, the structural procedure
\* (noop_actions) and the semantic procedure (actions) emit the same sequence
\* of stack and control operations (pops, replays, check_not_on_new_line
\* checks, accept returns, epsilon transitions); and every value a
\* structural Reduce replays is bound in the code emitted before it.
C21_StructuralMatchesSemantic ==
    /\ BothProceduresWritten =>
          StackAndControl(ProcedureItems("noop_actions"))
              = StackAndControl(ProcedureItems("actions"))
    /\ (ReduceCompiled /\ ~call.has_ast_builder) => ReadsAreBound(ret.ops)

\* the sub-actions of the last edge that were compiled to the end
CompiledLeaves ==
    LET last == IF FirstBlocking(call.act, call.has_ast_builder) = 0
                THEN Len(Leaves(call.act))
                ELSE FirstBlocking(call.act, call.has_ast_builder)
    IN  SelectSeq(SubSeq(Leaves(call.act), 1, last),
                  LAMBDA a : Passable(a, call.has_ast_builder) \/ Stops(a))
IsIdCall(a) == a.kind = "FunCall" /\ a.method = "id"
IsBuilderCall(a) == a.kind = "FunCall" /\ a.method \notin {"id", "accept"}

\* what the sub-actions before the j-th recorded for the variable n in
\* semantic mode: "packed" by an id call, "unpacked" by a builder method
\* call, "none" when no sub-action of the edge bound it
RECURSIVE Packing(_, _, _)
Packing(leaves, j, n) ==
    IF j <= 1 THEN "none"
    ELSE IF IsIdCall(leaves[j - 1]) /\ leaves[j - 1].set_to = n THEN "packed"
    ELSE IF IsBuilderCall(leaves[j - 1]) /\ leaves[j - 1].set_to = n THEN "unpacked"
    ELSE Packing(leaves, j - 1, n)

\* the expression of an argument of the j-th sub-action, unwrapped when its
\* variable is packed or has no entry (unwrapping) or never (otherwise)
RECURSIVE ExpectedArg(_, _, _, _)
ExpectedArg(a, leaves, j, unwrapping) ==
    IF a.kind = "Some"
    THEN [kind |-> "Some", inner |-> ExpectedArg(a.inner, leaves, j, unwrapping)]
    ELSE IF a.kind = "None" THEN None
    ELSE LET n == IF a.kind = "int" THEN SlotName(a.value + leaves[j].offset)
                  ELSE a.text
         IN  [kind |-> "var", name |-> n,
              unwrap |-> unwrapping /\ Packing(leaves, j, n) # "unpacked"]
\* the bindings the sub-actions are compiled to (let for id, call for a
\* builder method), id arguments unwrapped like the others or not
ExpectedBindings(leaves, unwrap_id) ==
    LET at == SelectSeq([j \in 1..Len(leaves) |-> j],
                        LAMBDA j : IsIdCall(leaves[j]) \/ IsBuilderCall(leaves[j]))
    IN  [k \in 1..Len(at) |->
            LET a == leaves[at[k]]
            IN  IF IsIdCall(a)
                THEN [op |-> "let", name |-> a.set_to,
                      args |-> <<ExpectedArg(a.args[1], leaves, at[k], unwrap_id)>>]
                ELSE [op |-> "call", name |-> a.set_to,
                      args |-> [i \in 1..Len(a.args) |->
                                   ExpectedArg(a.args[i], leaves, at[k], TRUE)]]]
\* the bindings written for the last edge
WrittenBindings ==
    LET at == SelectSeq(ret.ops, LAMBDA o : o.op \in {"let", "call"})
    IN  [k \in 1..Len(at) |->
            IF at[k].op = "let"
            THEN [op |-> "let", name |-> at[k].name, args |-> <<at[k].value>>]
            ELSE [op |-> "call", name |-> at[k].name, args |-> at[k].args]]
\* how a Reduce takes "value", given what the edge recorded for it
ExpectedValue(leaves) ==
    LET packing == Packing(leaves, Len(leaves), ValueName)
    IN  IF packing = "packed" THEN <<[form |-> "field", of |-> "value"]>>
        ELSE IF packing = "unpacked"
        THEN <<[form |-> "try_into_stack", of |-> "value"]>>
        ELSE <<[form |-> "try_into_stack", of |-> "None"]>>
WrittenValue ==
    LET at == SelectSeq(ret.ops, LAMBDA o : o.op = "let_value")
    IN  [k \in 1..Len(at) |-> at[k].value]
\* the packing map at the end of the edge holds what its own sub-actions
\* recorded, and nothing else
MapIsOfThisEdge ==
    LET leaves == CompiledLeaves
    IN  /\ DOMAIN ret.is_packed
              = {leaves[j].set_to : j \in {j \in 1..Len(leaves) :
                                              IsIdCall(leaves[j]) \/ IsBuilderCall(leaves[j])}}
        /\ \A n \in DOMAIN ret.is_packed :
              ret.is_packed[n] = (Packing(leaves, Len(leaves) + 1, n) = "packed")
SemanticEdgeCompiled == IsCompiledEdge /\ call.has_ast_builder

\* C22 as stated: the packing map is empty at the start of each edge and
\* holds no entry of another edge; in semantic mode an id binding is recorded
\* packed, a builder call's binding unpacked, a variable without an entry
\* counts as packed; every FunCall argument is emitted with the unwrap
\* conversion if and only if its binding is packed at that point, and a
\* Reduce takes "value" by field access when it is packed and converts it
\* into a stack value when it is not.
C22_Original ==
    SemanticEdgeCompiled =>
        /\ MapIsOfThisEdge
        /\ WrittenBindings = ExpectedBindings(CompiledLeaves, TRUE)
        /\ ReduceCompiled => WrittenValue = ExpectedValue(CompiledLeaves)

\* C22, amended: as stated, except that the unwrap conversion is applied to
\* the arguments of builder method calls only: the argument of an id call is
\* bound as it is, packed, without the conversion; and a Reduce that finds no
\* entry for "value" converts None into a stack value.
C22_PackingMap ==
    SemanticEdgeCompiled =>
        /\ MapIsOfThisEdge
        /\ WrittenBindings = ExpectedBindings(CompiledLeaves, FALSE)
        /\ ReduceCompiled => WrittenValue = ExpectedValue(CompiledLeaves)

\* the second edge of a state has been compiled in semantic mode: it passes
\* a variable that only the first edge bound (unpacked), unwrapped
C22_Witness ==
    /\ SemanticEdgeCompiled
    /\ edge_i = 2
    /\ ActionStateAt(state_i).edges[1][1].kind = "Seq"
    /\ \E j \in 1..Len(Leaves(ActionStateAt(state_i).edges[1][1])) :
          LET a == Leaves(ActionStateAt(state_i).edges[1][1])[j]
          IN  IsBuilderCall(a) /\ a.set_to = <<"x">>
    /\ Len(WrittenBindings) = 1
    /\ WrittenBindings[1].args = <<[kind |-> "var", name |-> <<"x">>, unwrap |-> TRUE]>>
    /\ DOMAIN ret.is_packed = {ValueName}

====
